---- MODULE Spec2Model ----
(***************************************************************************)
(* Model of the Solana pool monitor (Wildnet--3-Realtime): the webhook     *)
(* route, WebhookHandler, DatabaseClient, RateLimiter, RetryHelper and the *)
(* DefiLlama / Jupiter adapters.                                           *)
(*                                                                         *)
(* Time is counted in seconds: the source's 1000 ms is 1 here, so the      *)
(* server's RateLimiter(2000) has delay 2 and Math.pow(2, i) * 1000 is 2^i.*)
(* Every time is kept relative to the present: Date.now() is Now, a        *)
(* timestamp taken k seconds ago is Now - k and a timer due in k seconds   *)
(* is Now + k. A second passing (Tick) moves every stored time one back.   *)
(* The code reads a timestamp only to compare its age with delay, so an    *)
(* age is kept up to delay and no further.                                 *)
(* JavaScript null / undefined is the string Null; a nullable number is    *)
(* NullNum.                                                                *)
(***************************************************************************)
EXTENDS Integers, Sequences, FiniteSets, TLC

VARIABLES
    rateLimiter,  \* the shared RateLimiter: [lastCall, delay]
    pools,        \* rows of the pools table, in insertion order
    poolEvents,   \* rows of the events table, in insertion order
    req,          \* one record per webhook delivery (request slot)
    retry,        \* a RetryHelper.withBackoff call driven on its own
    waiter,       \* a sequential caller of RateLimiter.wait() (test-modules.js)
    hist,         \* observations: release times, outbound call starts, ...
    parse,        \* a parsePoolFromTransaction call driven on its own
    api,          \* the last GET /api/pools or /api/pools/apy request
    server,       \* the process: startServer, listening, cleanup
    lookup        \* a getBestApyForMint call driven on its own

vars ==
    <<rateLimiter, pools, poolEvents, req, retry, waiter, hist, parse, api, server, lookup>>

-----------------------------------------------------------------------------
(* Values *)

Null == "null"
NullNum == -1

\* Date.now()
Now == 0

SOL_MINT == "So11111111111111111111111111111111111111112"
TOKEN_PROGRAM == "TokenkegQfeZyiNwAJbNbGKPFXCWuBvf9Ss623VQ5DA"
SYSTEM_PROGRAM == "11111111111111111111111111111111"
ATA_PROGRAM == "ATokenGPvbdGVxr1b2hvZbsiqW5xWH25efTNsLJA8knL"
RAYDIUM_PROGRAM == "675kPX9MHTjS2zt1qfr1NYHuzeLXfQM9H24wFSUt1Mp8"

\* A null entry of tokenTransfers or accountData (reading a field of it throws).
NullEntry == "<null entry>"

\* JavaScript truthiness of a string-or-null value.
Truthy(s) == s # Null /\ s # ""

-----------------------------------------------------------------------------
(* WebhookHandler.parsePoolFromTransaction *)

\* A transaction notification. tokenTransfers and accountData are
\* [kind, items]: kind "absent", "array" or "other" (a truthy non-array);
\* the items are the entries' mint / account values, or NullEntry.
Absent == [kind |-> "absent", items |-> <<>>]
Arr(s) == [kind |-> "array", items |-> s]
NonArray == [kind |-> "other", items |-> <<>>]

\* accounts: a top-level list of account strings, which the legacy parser of
\* server.js read (line 172) and this parser does not.
Tx(type, source, signature, transfers, accounts, feePayer) ==
    [nullish |-> FALSE, type |-> type, source |-> source, signature |-> signature,
     tokenTransfers |-> transfers, accountData |-> accounts, feePayer |-> feePayer,
     accounts |-> Absent]

\* A null element of the payload.
NullTx == [nullish |-> TRUE, type |-> Null, source |-> Null, signature |-> Null,
           tokenTransfers |-> Absent, accountData |-> Absent, feePayer |-> Null,
           accounts |-> Absent]

\* The parser's null result, and a candidate. threw: the call ended by an
\* exception and returned nothing.
NoCandidate == [nullish |-> TRUE, threw |-> FALSE, tokenA |-> Null, tokenB |-> Null,
                poolAddress |-> Null, signature |-> Null, source |-> Null]

Candidate(a, b, addr, sig, src) ==
    [nullish |-> FALSE, threw |-> FALSE, tokenA |-> a, tokenB |-> b,
     poolAddress |-> addr, signature |-> sig, source |-> src]

\* A TypeError raised inside the try block of lines 18-71.
ParseThrew == [NoCandidate EXCEPT !.threw = TRUE]

\* The values of s with repetitions kept.
UniqueInOrderKeepAll(s, seen) == s

RECURSIVE UniqueInOrder(_, _)
\* [...new Set(s)]: the distinct values of s in first-occurrence order.
UniqueInOrder(s, seen) ==
    IF s = <<>> THEN <<>>
    ELSE IF Head(s) \in seen THEN UniqueInOrder(Tail(s), seen)
    ELSE <<Head(s)>> \o UniqueInOrder(Tail(s), seen \cup {Head(s)})

\* The filter of line 35 without its test for the SOL mint.
IsMintAny(m) == Truthy(m)

\* .filter(mint => mint && mint !== SOL), line 35.
IsMint(m) == Truthy(m) /\ m # SOL_MINT

\* The distinct mints in the order of their last occurrence, newest first.
TokenMintsReversed(items) ==
    LET mints == SelectSeq(items, IsMint)
    IN UniqueInOrder([i \in 1..Len(mints) |-> mints[Len(mints) + 1 - i]], {})

\* tokenMints of lines 33-36.
TokenMints(items) == UniqueInOrder(SelectSeq(items, IsMint), {})

SeqToSet(s) == {s[i] : i \in 1..Len(s)}

\* The account list the legacy parser read (server.js, line 172).
AccountListLegacy(tx) == tx.accounts

\* transaction.accountData, line 44.
AccountList(tx) == tx.accountData

\* The predicate of lines 44-53 without its test for the fee payer.
IsPoolAccountAnyPayer(acct, feePayer, mints) ==
    /\ Truthy(acct)
    /\ acct \notin SeqToSet(mints)
    /\ acct # SOL_MINT
    /\ acct # TOKEN_PROGRAM
    /\ acct # SYSTEM_PROGRAM
    /\ acct # ATA_PROGRAM
    /\ acct # RAYDIUM_PROGRAM

\* The predicate of accountData.find, lines 44-53.
IsPoolAccount(acct, feePayer, mints) ==
    /\ Truthy(acct)
    /\ acct # feePayer
    /\ acct \notin SeqToSet(mints)
    /\ acct # SOL_MINT
    /\ acct # TOKEN_PROGRAM
    /\ acct # SYSTEM_PROGRAM
    /\ acct # ATA_PROGRAM
    /\ acct # RAYDIUM_PROGRAM

\* Array.prototype.find over the accounts: the index of the first match, 0 if
\* none; -1 when a null entry is reached before a match (account.account throws).
RECURSIVE FindPoolAccount(_, _, _, _)
FindPoolAccount(items, i, feePayer, mints) ==
    IF i > Len(items) THEN 0
    ELSE IF items[i] = NullEntry THEN -1
    ELSE IF IsPoolAccount(items[i], feePayer, mints) THEN i
    ELSE FindPoolAccount(items, i + 1, feePayer, mints)

\* The try block, lines 18-71: the candidate, null, or the TypeError raised by
\* reading a field of null (transaction.type, transfer.mint, account.account)
\* or by calling .map / .find on a value that has none.
ParseTry(tx) ==
    IF tx.nullish THEN ParseThrew
    ELSE IF tx.tokenTransfers.kind = "absent" THEN NoCandidate
    ELSE IF tx.tokenTransfers.kind = "other" THEN ParseThrew
    ELSE IF Len(tx.tokenTransfers.items) < 2 THEN NoCandidate
    ELSE IF NullEntry \in SeqToSet(tx.tokenTransfers.items) THEN ParseThrew
    ELSE LET tokenMints == TokenMints(tx.tokenTransfers.items) IN
         IF Len(tokenMints) < 2 THEN NoCandidate
         ELSE IF AccountList(tx).kind = "other" THEN ParseThrew
         ELSE LET found == IF AccountList(tx).kind = "absent" THEN 0
                           ELSE FindPoolAccount(AccountList(tx).items, 1,
                                                tx.feePayer, tokenMints)
              IN IF found = -1 THEN ParseThrew
                 ELSE LET poolAddress == IF found = 0 THEN Null
                                         ELSE AccountList(tx).items[found]
                          detectedPoolAddress ==
                              IF Truthy(poolAddress) THEN poolAddress ELSE tx.signature
                      IN Candidate(tokenMints[1], tokenMints[2], detectedPoolAddress,
                                   tx.signature,
                                   IF Truthy(tx.source) THEN tx.source ELSE "unknown")

\* The call without the catch of lines 72-75.
parsePoolFromTransactionNoCatch(tx) == ParseTry(tx)

\* Lines 17-76: the try block, and the catch that turns an error into null.
parsePoolFromTransaction(tx) ==
    LET result == ParseTry(tx) IN
    IF result.threw THEN NoCandidate ELSE result

-----------------------------------------------------------------------------
(* RateLimiter *)

\* new RateLimiter(delayMs): lastCall = 0 is the epoch, further back than any
\* delay.
NewRateLimiter(delayMs) == [lastCall |-> Now - delayMs, delay |-> delayMs]

\* wait() sleeping for the time already elapsed instead of the time remaining.
WaitTimeElapsed(rl, now) ==
    LET timeSinceLastCall == now - rl.lastCall
    IN IF timeSinceLastCall < rl.delay THEN timeSinceLastCall ELSE 0

\* Lines 158-162 of wait(): how long the caller sleeps, 0 when it does not.
WaitTime(rl, now) ==
    LET timeSinceLastCall == now - rl.lastCall
    IN IF timeSinceLastCall < rl.delay THEN rl.delay - timeSinceLastCall ELSE 0

\* Line 167 of wait(): this.lastCall = Date.now().
Release(rl, now) == [rl EXCEPT !.lastCall = now]

-----------------------------------------------------------------------------
(* RetryHelper.withBackoff *)

RECURSIVE Pow2(_)
Pow2(i) == IF i = 0 THEN 1 ELSE 2 * Pow2(i - 1)

\* Math.pow(2, i) * 1000 ms, in seconds.
BackoffDelay(i) == Pow2(i)

\* An error object: the invocation of fn that raised it and the HTTP status in
\* its message (0: fetch itself rejected).
NoError == [attempt |-> 0, status |-> 0]
Error(k, status) == [attempt |-> k, status |-> status]

\* An operation's outcome: a value returned or an error thrown.
Returned(v) == [ok |-> TRUE, value |-> v, error |-> NoError]
Thrown(e) == [ok |-> FALSE, value |-> "undefined", error |-> e]

\* The state of one withBackoff call: the loop index i, where the call is
\* ("call": about to invoke fn, "sleep": in the backoff setTimeout until wakeAt,
\* "returned", "thrown"), and its result.
NewBackoff(maxRetries) ==
    [i |-> 0, maxRetries |-> maxRetries,
     at |-> IF 0 < maxRetries THEN "call" ELSE "returned",
     result |-> "undefined", error |-> NoError, wakeAt |-> 0]

\* The rethrow test one attempt late.
IsLastAttemptOffByOne(i, maxRetries) == i = maxRetries

\* Whether a failure of attempt i is rethrown (line 10).
IsLastAttempt(i, maxRetries) == i = maxRetries - 1

\* One pass of the loop body, lines 7-14, given fn's outcome.
BackoffAttempt(b, outcome, now) ==
    IF outcome.ok THEN [b EXCEPT !.at = "returned", !.result = outcome.value]
    ELSE IF IsLastAttempt(b.i, b.maxRetries)
         THEN [b EXCEPT !.at = "thrown", !.error = outcome.error]
         ELSE [b EXCEPT !.at = "sleep", !.wakeAt = now + BackoffDelay(b.i)]

\* The setTimeout of line 14 fires: i++ and the loop test of line 6.
BackoffWake(b) ==
    [b EXCEPT !.i = b.i + 1,
              !.at = IF b.i + 1 < b.maxRetries THEN "call" ELSE "returned"]

-----------------------------------------------------------------------------
(* The external APIs' responses *)

\* fetch() outcomes: an HTTP status with a body, or status 0 when fetch rejects
\* (network error). A body is named; ListingPools and TokenSearch give what a
\* named body holds.
Response(status, body) == [status |-> status, body |-> body]

ResponseOk(resp) == resp.status >= 200 /\ resp.status <= 299

-----------------------------------------------------------------------------
(* JupiterClient *)

\* GET /tokens/v2/search bodies: the ids of the tokens listed, in order.
TokenSearch(body, mintAddress) ==
    CASE body = "exact" -> <<"OtherToken", mintAddress>>
      [] body = "other" -> <<"OtherToken">>
      [] OTHER -> <<>>

JupiterBodies == {"exact", "other", "none"}

\* getTokenInfo's function without the 404 branch of lines 86-89.
JupiterOpThrowOn404(resp, mintAddress, k) ==
    IF resp.status = 0 THEN Thrown(Error(k, 0))
    ELSE IF ~ResponseOk(resp) THEN Thrown(Error(k, resp.status))
    ELSE LET data == TokenSearch(resp.body, mintAddress) IN
         IF mintAddress \in SeqToSet(data) THEN Returned(mintAddress)
         ELSE IF Len(data) > 0 THEN Returned(data[1]) ELSE Returned(Null)

\* The function passed to withBackoff by getTokenInfo, lines 80-97: the id of
\* the token found, or null.
JupiterOp(resp, mintAddress, k) ==
    IF resp.status = 0 THEN Thrown(Error(k, 0))
    ELSE IF ~ResponseOk(resp)
         THEN IF resp.status = 404 THEN Returned(Null)
              ELSE Thrown(Error(k, resp.status))
         ELSE LET data == TokenSearch(resp.body, mintAddress) IN
              IF mintAddress \in SeqToSet(data) THEN Returned(mintAddress)
              ELSE IF Len(data) > 0 THEN Returned(data[1]) ELSE Returned(Null)

-----------------------------------------------------------------------------
(* DefiLlamaClient *)

\* The function passed to withBackoff by getAllPools, lines 16-27: the name of
\* the listing returned (data.data || []).
DefiLlamaOp(resp, k) ==
    IF resp.status = 0 THEN Thrown(Error(k, 0))
    ELSE IF ~ResponseOk(resp) THEN Thrown(Error(k, resp.status))
    ELSE Returned(IF resp.body = "nodata" THEN "empty" ELSE resp.body)

-----------------------------------------------------------------------------
(* Bounds *)

MaxRetriesBound == 4     \* largest maxRetries passed to withBackoff on its own
MaxDelay == 6            \* largest delay of a RateLimiter driven on its own
MaxTransfers == 3        \* most tokenTransfers entries of a transaction parsed on its own
MaxPools == 28           \* most rows of the pools table read through the API on its own

-----------------------------------------------------------------------------
(* Time passing *)

Max(a, b) == IF a > b THEN a ELSE b

\* A timestamp one second later: one further back, its age kept up to maxAge.
Older(stamp, maxAge) == Max(stamp - 1, Now - maxAge)

\* A timer one second later; it is due once it is not after Now.
Sooner(wakeAt) == Max(wakeAt - 1, Now)

TickBackoff(b) == IF b.at = "sleep" THEN [b EXCEPT !.wakeAt = Sooner(@)] ELSE b

TickLimiter(rl) == [rl EXCEPT !.lastCall = Older(@, rl.delay)]

TickHist(h, rl) ==
    IF h.apiCalls > 0 THEN [h EXCEPT !.lastApi = Older(@, rl.delay)] ELSE h

-----------------------------------------------------------------------------
(* RetryHelper.withBackoff, driven on its own around one adapter's request *)

Statuses == {200, 404, 500, 0}

Responses(client) ==
    IF client = "jupiter"
    THEN {Response(200, b) : b \in JupiterBodies} \cup {Response(s, "none") : s \in Statuses \ {200}}
    ELSE {Response(200, b) : b \in {"empty", "nodata", "L1"}}
             \cup {Response(s, "none") : s \in Statuses \ {200}}

\* The call with what was seen of it: how often fn was invoked, the waits
\* between invocations, the last response's status and fn's last outcome.
IdleRetry == [client |-> "none", b |-> NewBackoff(0), invocations |-> 0,
              waits |-> <<>>, lastStatus |-> -1, lastOutcome |-> Returned("undefined")]

ClientOp(client, resp, k) ==
    IF client = "jupiter" THEN JupiterOp(resp, "TokenA", k) ELSE DefiLlamaOp(resp, k)

\* fn() is invoked and settles (line 8, and the catch of lines 9-14).
RetryInvoke ==
    /\ retry.b.at = "call"
    /\ \E resp \in Responses(retry.client) :
         LET k == retry.invocations + 1
             outcome == ClientOp(retry.client, resp, k)
             b2 == BackoffAttempt(retry.b, outcome, Now)
         IN retry' = [retry EXCEPT
                        !.b = b2,
                        !.invocations = k,
                        !.lastStatus = resp.status,
                        !.lastOutcome = outcome,
                        !.waits = IF b2.at = "sleep"
                                  THEN Append(@, b2.wakeAt - Now) ELSE @]
    /\ UNCHANGED <<rateLimiter, pools, poolEvents, req, waiter, hist, parse, api, server, lookup>>

\* The backoff timer fires.
RetryWake ==
    /\ retry.b.at = "sleep"
    /\ Now >= retry.b.wakeAt
    /\ retry' = [retry EXCEPT !.b = BackoffWake(@)]
    /\ UNCHANGED <<rateLimiter, pools, poolEvents, req, waiter, hist, parse, api, server, lookup>>

\* A second passes while the backoff timer is pending.
RetryTick ==
    /\ retry.b.at = "sleep"
    /\ retry.b.wakeAt > Now
    /\ retry' = [retry EXCEPT !.b = TickBackoff(@)]
    /\ UNCHANGED <<rateLimiter, pools, poolEvents, req, waiter, hist, parse, api, server, lookup>>

-----------------------------------------------------------------------------
(* DefiLlamaClient.searchPools / getBestApyForMint *)

\* One entry of the /pools listing. mentions: the mints whose lower-cased text
\* is a substring of the entry's pool key, symbol or project (lines 44-51).
YieldPool(chain, mentions, apy, tvlUsd) ==
    [chain |-> chain, mentions |-> mentions, apy |-> apy, tvlUsd |-> tvlUsd]

\* The listings enumerated for a lookup driven on its own: every sequence of
\* at most MaxListing entries, each of a chain (the requested one or another),
\* a mint it mentions, an apy (null, 0 or a yield) and a tvlUsd (0 for the
\* entries of the highest apy, otherwise a value of the entry's own).
MaxListing == 2

ApyValues == <<NullNum, 0, 5, 7>>

YieldKinds == 4 * Len(ApyValues)

YieldKind(p) ==
    YieldPool(IF p % 2 = 0 THEN "Solana" ELSE "Ethereum",
              IF (p \div 2) % 2 = 0 THEN {"TokenA"} ELSE {"TokenB"},
              ApyValues[((p \div 4) % Len(ApyValues)) + 1],
              IF (p \div 4) % Len(ApyValues) = Len(ApyValues) - 1 THEN 0 ELSE 100 * (p + 1))

GeneratedListing(n, code) ==
    [i \in 1..n |->
        [YieldKind((code \div (YieldKinds ^ (i - 1))) % YieldKinds) EXCEPT !.tvlUsd = IF @ = 0 THEN 0 ELSE @ + i]]

ListingName(n, code) == "G" \o ToString(n) \o "_" \o ToString(code)

GeneratedCodes == UNION {{<<n, code>> : code \in 0..((YieldKinds ^ n) - 1)} : n \in 0..MaxListing}

GeneratedNames == {ListingName(x[1], x[2]) : x \in GeneratedCodes}

\* The named listings.
ListingPools(name) ==
    CASE name = "L1" -> <<YieldPool("Solana", {"TokenB"}, 5, 100),
                          YieldPool("Ethereum", {"TokenA"}, 9, 900),
                          YieldPool("Solana", {"TokenB"}, 7, 300)>>
      [] name = "L2" -> <<YieldPool("Solana", {"TokenA"}, 3, 200)>>
      [] name \in {"empty", "none", "undefined", Null} -> <<>>
      [] OTHER -> LET x == CHOOSE y \in GeneratedCodes : ListingName(y[1], y[2]) = name
                  IN GeneratedListing(x[1], x[2])

searchPools(listing, mintAddress, chain) ==
    LET Matches(pool) == pool.chain = chain /\ mintAddress \in pool.mentions
    IN SelectSeq(ListingPools(listing), Matches)

\* The reducer of lines 95-99; NoPool is the accumulator's initial null.
NoPool == [chain |-> Null, mentions |-> {}, apy |-> NullNum, tvlUsd |-> NullNum]

\* x || 0 for a nullable number.
OrZero(x) == IF x = NullNum THEN 0 ELSE x

\* A reducer that lets a later pool of equal apy take the place of the best.
RECURSIVE ReduceBestOrEqual(_, _)
ReduceBestOrEqual(matching, best) ==
    IF matching = <<>> THEN best
    ELSE LET current == Head(matching)
             currentApy == OrZero(current.apy)
             bestApy == OrZero(best.apy)
         IN ReduceBestOrEqual(Tail(matching),
                              IF currentApy >= bestApy THEN current ELSE best)

RECURSIVE ReduceBest(_, _)
ReduceBest(matching, best) ==
    IF matching = <<>> THEN best
    ELSE LET current == Head(matching)
             currentApy == OrZero(current.apy)
             bestApy == OrZero(best.apy)
         IN ReduceBest(Tail(matching), IF currentApy > bestApy THEN current ELSE best)

\* The result of getBestApyForMint, null or {apy, tvl, ...}.
NoApyData == [nullish |-> TRUE, apy |-> NullNum, tvl |-> NullNum]

getBestApyForMint(listing, mintAddress) ==
    LET matchingPools == searchPools(listing, mintAddress, "Solana")
        bestPool == ReduceBest(matchingPools, NoPool)
    IN IF Len(matchingPools) = 0 THEN NoApyData
       ELSE IF bestPool # NoPool
            THEN [nullish |-> FALSE, apy |-> bestPool.apy, tvl |-> bestPool.tvlUsd]
            ELSE NoApyData

\* getBestApyForMint called on its own with a listing and a mint.
YieldMints == {"TokenA", "TokenB", "TokenC"}

IdleLookup == [at |-> "idle", listing |-> "empty", mint |-> Null, result |-> NoApyData]

YieldCall ==
    /\ lookup.at = "input"
    /\ lookup' = [lookup EXCEPT !.at = "done",
                                !.result = getBestApyForMint(lookup.listing, lookup.mint)]
    /\ UNCHANGED <<rateLimiter, pools, poolEvents, req, retry, waiter, hist, parse, api, server>>

-----------------------------------------------------------------------------
(* DatabaseClient *)

\* A conversion that turns nothing into null.
OrNullKeepsZero(x) == x

\* x || null for a nullable number.
OrNull(x) == IF x = NullNum \/ x = 0 THEN NullNum ELSE x

PoolAddresses == {pools[i].poolAddress : i \in 1..Len(pools)}
PoolSignatures == {pools[i].signature : i \in 1..Len(pools)}
EventSignatures == {poolEvents[i].signature : i \in 1..Len(poolEvents)}

\* An existence check that finds nothing.
poolExistsNever(poolAddress) == FALSE

\* An existence check that looks the address up among the signatures.
poolExistsBySignature(poolAddress) == poolAddress \in PoolSignatures

\* prisma.pool.findUnique({ where: { poolAddress } }), lines 36-41.
poolExists(poolAddress) == poolAddress \in PoolAddresses

\* A pools table whose only unique column is signature.
PoolInsertAllowedBySignature(poolData) ==
    poolData.signature \notin PoolSignatures

\* The unique constraints of the pools table (poolAddress, signature).
PoolInsertAllowed(poolData) ==
    /\ poolData.poolAddress \notin PoolAddresses
    /\ poolData.signature \notin PoolSignatures

\* The row written by prisma.pool.create, lines 50-61.
PoolRow(poolData) ==
    [id |-> Len(pools) + 1,
     tokenA |-> poolData.tokenA,
     tokenB |-> poolData.tokenB,
     poolAddress |-> poolData.poolAddress,
     source |-> IF Truthy(poolData.source) THEN poolData.source ELSE "Unknown",
     signature |-> poolData.signature,
     apy |-> OrNull(poolData.apy),
     tvl |-> OrNull(poolData.tvl),
     volume24h |-> NullNum]

\* An update without its where clause.
updatePoolApyAll(rows, poolAddress, apyData) ==
    [i \in 1..Len(rows) |-> [rows[i] EXCEPT !.apy = apyData.apy, !.tvl = apyData.tvl]]

\* prisma.pool.update({ where: { poolAddress }, data: { apy, tvl } }), lines
\* 131-137: the values are written as they are given.
updatePoolApy(rows, poolAddress, apyData) ==
    [i \in 1..Len(rows) |->
        IF rows[i].poolAddress = poolAddress
        THEN [rows[i] EXCEPT !.apy = apyData.apy, !.tvl = apyData.tvl]
        ELSE rows[i]]

\* The unique constraint of the events table (signature) and its foreign key.
EventInsertAllowed(eventData) ==
    /\ eventData.signature \notin EventSignatures
    /\ \E i \in 1..Len(pools) : pools[i].id = eventData.poolId

\* The row written by prisma.poolEvent.create, lines 78-86.
EventRow(eventData) ==
    [poolId |-> eventData.poolId,
     eventType |-> IF Truthy(eventData.eventType) THEN eventData.eventType ELSE "created",
     signature |-> eventData.signature,
     rawData |-> eventData.rawData]

-----------------------------------------------------------------------------
(* Observations *)

\* What the properties read beside the program's state: how many wait()
\* calls have returned (0, 1, or 2 for more), when the last outbound call
\* started, and whether two consecutive releases (two consecutive outbound
\* calls) were ever less than delay apart.
InitHist ==
    [releases |-> 0, releaseTooClose |-> FALSE,
     apiCalls |-> 0, lastApi |-> Now, apiTooClose |-> FALSE]

\* wait() returns at time now; rl.lastCall is still the release before.
ObserveRelease(h, rl, now) ==
    [h EXCEPT !.releases = IF @ < 2 THEN @ + 1 ELSE @,
              !.releaseTooClose = @ \/ (h.releases > 0 /\ now - rl.lastCall < rl.delay)]

\* fetch() is called at time now.
ObserveApiCall(h, rl, now) ==
    [h EXCEPT !.apiCalls = IF @ < 2 THEN @ + 1 ELSE @,
              !.lastApi = now,
              !.apiTooClose = @ \/ (h.apiCalls > 0 /\ now - h.lastApi < rl.delay)]

-----------------------------------------------------------------------------
(* RateLimiter.wait() called sequentially, as test-modules.js does *)

IdleWaiter == [at |-> "idle", wakeAt |-> 0]

\* wait() is called: lines 158-165, and line 167 when it does not sleep.
WaiterCall ==
    /\ waiter.at = "idle"
    /\ LET waitTime == WaitTime(rateLimiter, Now) IN
         IF waitTime > 0
         THEN /\ waiter' = [at |-> "sleep", wakeAt |-> Now + waitTime]
              /\ UNCHANGED <<rateLimiter, hist>>
         ELSE /\ rateLimiter' = Release(rateLimiter, Now)
              /\ hist' = ObserveRelease(hist, rateLimiter, Now)
              /\ UNCHANGED waiter
    /\ UNCHANGED <<pools, poolEvents, req, retry, parse, api, server, lookup>>

\* The setTimeout of line 164 fires, then line 167.
WaiterWake ==
    /\ waiter.at = "sleep"
    /\ Now >= waiter.wakeAt
    /\ waiter' = IdleWaiter
    /\ rateLimiter' = Release(rateLimiter, Now)
    /\ hist' = ObserveRelease(hist, rateLimiter, Now)
    /\ UNCHANGED <<pools, poolEvents, req, retry, parse, api, server, lookup>>

\* A second passes, between two calls or during the sleep of one.
WaiterTick ==
    /\ \/ waiter.at = "sleep" /\ waiter.wakeAt > Now
       \/ Now - rateLimiter.lastCall < rateLimiter.delay
    /\ rateLimiter' = TickLimiter(rateLimiter)
    /\ waiter' = IF waiter.at = "sleep" THEN [waiter EXCEPT !.wakeAt = Sooner(@)] ELSE waiter
    /\ UNCHANGED <<pools, poolEvents, req, retry, hist, parse, api, server, lookup>>

-----------------------------------------------------------------------------
(* parsePoolFromTransaction, driven on its own over transactions *)

\* A transfer's mint: a token, the SOL mint, a program id, an empty or missing
\* mint; or the entry itself is null.
MintValues == {"TokenA", "TokenB", SOL_MINT, TOKEN_PROGRAM, "", NullEntry}

TransferLists == UNION {[1..n -> MintValues] : n \in 0..MaxTransfers}

\* accountData: the entries' account values ("": an entry without one).
AccountLists ==
    {<<>>,
     <<"feePayer", "PoolAcct", "TokenA", "TokenB">>,
     <<"feePayer", "TokenA", RAYDIUM_PROGRAM, "PoolAcct", "Other">>,
     <<"", "TokenB", SOL_MINT, TOKEN_PROGRAM, SYSTEM_PROGRAM, ATA_PROGRAM, "Other">>,
     <<"feePayer", SOL_MINT, TOKEN_PROGRAM, RAYDIUM_PROGRAM>>,
     <<NullEntry, "PoolAcct">>,
     <<"PoolAcct", NullEntry>>,
     <<"feePayer", NullEntry>>}

\* The account list in the form the legacy parser read.
LegacyAccounts == Arr(<<"feePayer", "PoolAcct", "TokenA", "TokenB">>)

ParseInputs ==
    {NullTx} \cup
    {[Tx("CREATE_POOL", source, "sig1", transfers, accountData, "feePayer")
         EXCEPT !.accounts = accounts] :
        source \in {Null, "RAYDIUM"},
        transfers \in {Absent, NonArray} \cup {Arr(t) : t \in TransferLists},
        accountData \in {Absent, NonArray} \cup {Arr(a) : a \in AccountLists},
        accounts \in {Absent, LegacyAccounts}}

IdleParse == [at |-> "idle", tx |-> NullTx, result |-> NoCandidate]

\* parsePoolFromTransaction(transaction) is called and returns (or throws).
ParseCall ==
    /\ parse.at = "input"
    /\ parse' = [parse EXCEPT !.at = "done", !.result = parsePoolFromTransaction(parse.tx)]
    /\ UNCHANGED <<rateLimiter, pools, poolEvents, req, retry, waiter, hist, api, server, lookup>>

-----------------------------------------------------------------------------
(* The webhook pipeline: POST /webhook/helius and WebhookHandler *)

ServerDelay == 2          \* new RateLimiter(2000)
DefaultMaxRetries == 3    \* withBackoff(fn, maxRetries = 3)

\* The deliveries in flight at once.
Requests == {1, 2}

\* Transactions delivered.
T1 == Tx("CREATE_POOL", Null, "sig1", Arr(<<"TokenA", SOL_MINT, "TokenB">>),
         Arr(<<"feePayer", "PoolAcct", "TokenA", "TokenB">>), "feePayer")
\* the same pool account seen in another transaction
T2 == Tx("ENHANCED_TRANSACTION", "RAYDIUM", "sig2", Arr(<<"TokenB", "TokenA">>),
         Arr(<<"feePayer", TOKEN_PROGRAM, "PoolAcct">>), "feePayer")
\* not a pool transaction
T3 == Tx("SWAP", "JUPITER", "sig3", Arr(<<"TokenA", "TokenB">>), Absent, "feePayer")
\* one mint only
T4 == Tx("CREATE_POOL", "RAYDIUM", "sig4", Arr(<<"TokenA", SOL_MINT>>), Absent, "feePayer")

ArrayBody(items) == [kind |-> "array", items |-> items]
ObjectBody(tx) == [kind |-> "object", items |-> <<tx>>]

\* Request bodies delivered.
Bodies ==
    {ArrayBody(<<T1>>), ArrayBody(<<T3, T4>>), ArrayBody(<<T1, T2>>),
     ArrayBody(<<NullTx, T1>>), ObjectBody(T1)}

\* Request bodies delivered after the first delivery.
LaterBodies == {ArrayBody(<<T1>>)}

\* What parsePoolFromTransaction returns for each transaction delivered.
Parsed == [tx \in {T1, T2, T3, T4, NullTx} |-> parsePoolFromTransaction(tx)]

\* A loop that hands every transaction to the parser.
AcceptedTypeAny(type) == TRUE

\* The test of line 159.
AcceptedType(type) == type = "ENHANCED_TRANSACTION" \/ type = "CREATE_POOL"

\* Array.isArray(req.body) ? req.body : [req.body] (the legacy route).
LegacyTransactions(body) == body.items

\* Whether for...of can iterate req.body || [] (the modular route passes the
\* body on as it is).
Iterable(body) == body.kind = "array"

\* The synchronous part of the loop of processWebhookPayload from element i:
\* it runs on to the first transaction that reaches savePoolToDatabase (whose
\* first await is poolExists), to the end of the batch (200), or to an
\* element whose .type cannot be read (the TypeError reaches the route: 500).
RECURSIVE Scan(_, _)
Scan(items, i) ==
    IF i > Len(items) THEN [idx |-> i, pc |-> "responded", status |-> 200]
    ELSE IF items[i].nullish THEN [idx |-> i, pc |-> "responded", status |-> 500]
    ELSE IF AcceptedType(items[i].type) /\ ~Parsed[items[i]].nullish
         THEN [idx |-> i, pc |-> "exists", status |-> 0]
         ELSE Scan(items, i + 1)

NoLast == [outcome |-> "none", poolAddress |-> Null, signature |-> Null,
           yieldThrew |-> FALSE, tokenFailed |-> FALSE, issued |-> <<>>,
           attempts |-> NullNum]

IdleReq ==
    [pc |-> "none", body |-> [kind |-> "none", items |-> <<>>], idx |-> 0, status |-> 0,
     cand |-> NoCandidate, b |-> NewBackoff(0), wakeAt |-> 0,
     apyData |-> NoApyData, tokenAInfo |-> Null, tokenBInfo |-> Null, newPoolId |-> 0,
     yieldThrew |-> FALSE, tokenFailed |-> FALSE,
     resub |-> FALSE, startAddrs |-> {}, insertedPool |-> FALSE, insertedEvent |-> FALSE,
     issued |-> <<>>, concurrent |-> FALSE, attempts |-> NullNum,
     last |-> NoLast]

\* The loop moves to element i (and beyond, see Scan).
MoveTo(rq, i) ==
    LET nxt == Scan(rq.body.items, i) IN
    [rq EXCEPT !.pc = nxt.pc, !.idx = nxt.idx, !.status = nxt.status,
               !.cand = IF nxt.pc = "exists"
                        THEN Parsed[rq.body.items[nxt.idx]]
                        ELSE NoCandidate,
               !.b = NewBackoff(0), !.wakeAt = 0, !.apyData = NoApyData,
               !.tokenAInfo = Null, !.tokenBInfo = Null, !.newPoolId = 0,
               !.yieldThrew = FALSE, !.tokenFailed = FALSE, !.issued = <<>>,
               !.attempts = IF @ = NullNum THEN NullNum ELSE 0]

\* A save whose failure reaches the route: the batch stops with a 500.
FinishAborts(rq, outcome) ==
    LET done == [rq EXCEPT !.last = [outcome |-> outcome,
                                     poolAddress |-> rq.cand.poolAddress,
                                     signature |-> rq.cand.signature,
                                     yieldThrew |-> rq.yieldThrew,
                                     tokenFailed |-> rq.tokenFailed,
                                     issued |-> rq.issued,
                                     attempts |-> rq.attempts]]
    IN IF outcome \in {"saved", "duplicate"} THEN MoveTo(done, rq.idx + 1)
       ELSE [done EXCEPT !.pc = "responded", !.status = 500]

\* savePoolToDatabase returns (lines 90, 141, 144) and the loop goes on.
Finish(rq, outcome) ==
    MoveTo([rq EXCEPT !.last = [outcome |-> outcome,
                                poolAddress |-> rq.cand.poolAddress,
                                signature |-> rq.cand.signature,
                                yieldThrew |-> rq.yieldThrew,
                                tokenFailed |-> rq.tokenFailed,
                                issued |-> rq.issued,
                                     attempts |-> rq.attempts]],
           rq.idx + 1)

\* The route handler up to its first await, lines 375-384.
RouteStart(rq, body, resub, addrs, concurrent) ==
    LET got == [rq EXCEPT !.body = body, !.resub = resub, !.startAddrs = addrs,
                          !.concurrent = concurrent] IN
    IF Iterable(body) THEN MoveTo(got, 1)
    ELSE [got EXCEPT !.pc = "responded", !.status = 500]

\* fetch() is invoked once more. attempts: the fetch() invocations made for
\* the current transaction; they are counted where a single delivery is
\* followed (attempts starts at 0) and not otherwise (attempts is null).
Attempt(rq) == IF rq.attempts = NullNum THEN rq ELSE [rq EXCEPT !.attempts = @ + 1]

\* A lookup that allows itself one attempt more.
StartFetchOneMore(rq, pc) ==
    Attempt([rq EXCEPT !.pc = pc, !.b = NewBackoff(DefaultMaxRetries + 1),
                       !.issued = Append(@, pc)])

\* fetch() is called inside a fresh withBackoff. issued: the steps of the
\* enrichment of this candidate entered so far, in order.
StartFetch(rq, pc) ==
    Attempt([rq EXCEPT !.pc = pc, !.b = NewBackoff(DefaultMaxRetries),
                       !.issued = Append(@, pc)])

\* rateLimiter.wait() has returned (line 95).
Waited(rq) == [rq EXCEPT !.issued = Append(@, "wait")]

ApiPcs == {"apyA", "apyB", "tokA", "tokB"}

\* getFullTokenData, lines 124-155: the token's id, null when it was not found
\* or the lookup threw.
getFullTokenData(b) == IF b.at = "thrown" THEN Null ELSE b.result

\* A response reaches the request's pending fetch: the rest of the retry loop's
\* pass and, once withBackoff has settled, of savePoolToDatabase up to its
\* next await (lines 98-119).
AfterFetch(rq, resp, now) ==
    LET mint == IF rq.pc \in {"apyA", "tokA"} THEN rq.cand.tokenA ELSE rq.cand.tokenB
        outcome == IF rq.pc \in {"apyA", "apyB"}
                   THEN DefiLlamaOp(resp, rq.b.i + 1)
                   ELSE JupiterOp(resp, mint, rq.b.i + 1)
        b2 == BackoffAttempt(rq.b, outcome, now)
    IN IF b2.at = "sleep" THEN [rq EXCEPT !.b = b2]
       ELSE IF rq.pc \in {"apyA", "apyB"}
       THEN IF b2.at = "thrown"
            THEN Finish([rq EXCEPT !.yieldThrew = TRUE], "enrichFailed")
            ELSE LET apyData == getBestApyForMint(b2.result, mint) IN
                 IF rq.pc = "apyA" /\ apyData.nullish
                 THEN StartFetch(rq, "apyB")
                 ELSE StartFetch([rq EXCEPT !.apyData = apyData], "tokA")
       ELSE LET failed == rq.tokenFailed \/ b2.at = "thrown" IN
            IF rq.pc = "tokA"
            THEN StartFetch([rq EXCEPT !.tokenAInfo = getFullTokenData(b2),
                                       !.tokenFailed = failed], "tokB")
            ELSE [rq EXCEPT !.tokenBInfo = getFullTokenData(b2), !.tokenFailed = failed,
                            !.pc = "storePool", !.b = NewBackoff(0)]

\* poolToStore, lines 108-116.
PoolToStore(rq) ==
    [tokenA |-> rq.cand.tokenA, tokenB |-> rq.cand.tokenB,
     poolAddress |-> rq.cand.poolAddress, signature |-> rq.cand.signature,
     source |-> rq.cand.source,
     apy |-> OrNull(rq.apyData.apy), tvl |-> OrNull(rq.apyData.tvl)]

\* An event that carries no signature.
EventToStoreUnsigned(rq) ==
    [poolId |-> rq.newPoolId, signature |-> Null, eventType |-> "created",
     rawData |-> <<rq.tokenAInfo, rq.tokenBInfo>>]

\* The event of lines 122-133.
EventToStore(rq) ==
    [poolId |-> rq.newPoolId, signature |-> rq.cand.signature, eventType |-> "created",
     rawData |-> <<rq.tokenAInfo, rq.tokenBInfo>>]

YieldResponses == {Response(200, "L1"), Response(200, "empty"), Response(500, "none")}
TokenResponses == {Response(200, "exact"), Response(500, "none")}

\* The observations after a step; calls: whether it called fetch().
Observed(calls) == IF calls THEN ObserveApiCall(hist, rateLimiter, Now) ELSE hist

\* The body is the one of the delivery answered last, and no delivery is
\* being processed: the same payload submitted twice in succession.
Resubmitted(r, body) ==
    /\ \A o \in Requests \ {r} : req[o].pc \in {"none", "responded"}
    /\ \E o \in Requests \ {r} : req[o].pc = "responded" /\ req[o].body = body

\* No delivery is being processed.
Quiet == \A o \in Requests : req[o].pc \in {"none", "responded"}

\* The bodies a delivery may carry: any body for the first delivery; later,
\* one whose pool collides with an earlier one's or, when no delivery is
\* being processed, the body answered before (a redelivery).
DeliveredBodies ==
    IF \A o \in Requests : req[o].pc = "none" THEN Bodies
    ELSE LaterBodies
           \cup (IF Quiet THEN {req[o].body : o \in {x \in Requests : req[x].pc = "responded"}}
                 ELSE {})

\* Request slots are taken in order.
SlotFree(r) == req[r].pc = "none" /\ \A o \in Requests : o < r => req[o].pc # "none"

\* POST /webhook/helius arrives: the route handler runs to its first await.
Receive(r) ==
    /\ server.at = "listening"
    /\ SlotFree(r)
    /\ \E body \in DeliveredBodies :
         LET rq2 == RouteStart(req[r], body, Resubmitted(r, body), PoolAddresses, ~Quiet)
         IN /\ req' = [req EXCEPT ![r] = rq2]
            /\ hist' = Observed(FALSE)
    /\ UNCHANGED <<rateLimiter, pools, poolEvents, retry, waiter, parse, api, server, lookup>>

\* poolExists settles (lines 86-91), then rateLimiter.wait() is entered
\* (line 95) and, when it does not sleep, the first lookup is issued (line 98).
PoolExistsReturn(r) ==
    /\ req[r].pc = "exists"
    /\ \E dbOk \in BOOLEAN :
         LET rq == req[r]
             waitTime == WaitTime(rateLimiter, Now)
             rq2 == IF ~dbOk THEN Finish(rq, "existsFailed")
                    ELSE IF poolExists(rq.cand.poolAddress) THEN Finish(rq, "duplicate")
                    ELSE IF waitTime > 0
                         THEN [rq EXCEPT !.pc = "limiter", !.wakeAt = Now + waitTime]
                         ELSE StartFetch(Waited(rq), "apyA")
             released == rq2.pc = "apyA"
         IN /\ req' = [req EXCEPT ![r] = rq2]
            /\ rateLimiter' = IF released THEN Release(rateLimiter, Now) ELSE rateLimiter
            /\ hist' = IF released
                       THEN ObserveRelease(Observed(TRUE), rateLimiter, Now)
                       ELSE Observed(FALSE)
    /\ UNCHANGED <<pools, poolEvents, retry, waiter, parse, api, server, lookup>>

\* The limiter's timer fires (line 164), lastCall is set (line 167) and the
\* first lookup is issued (line 98).
LimiterWake(r) ==
    /\ req[r].pc = "limiter"
    /\ Now >= req[r].wakeAt
    /\ LET rq2 == StartFetch(Waited(req[r]), "apyA") IN
         /\ req' = [req EXCEPT ![r] = rq2]
         /\ rateLimiter' = Release(rateLimiter, Now)
         /\ hist' = ObserveRelease(Observed(TRUE), rateLimiter, Now)
    /\ UNCHANGED <<pools, poolEvents, retry, waiter, parse, api, server, lookup>>

\* The pending fetch of a lookup settles.
FetchReturn(r) ==
    /\ req[r].pc \in ApiPcs
    /\ req[r].b.at = "call"
    /\ \E resp \in IF req[r].pc \in {"apyA", "apyB"} THEN YieldResponses ELSE TokenResponses :
         LET rq2 == AfterFetch(req[r], resp, Now)
         IN /\ req' = [req EXCEPT ![r] = rq2]
            /\ hist' = Observed(rq2.pc \in ApiPcs /\ rq2.b.at = "call")
    /\ UNCHANGED <<rateLimiter, pools, poolEvents, retry, waiter, parse, api, server, lookup>>

\* The backoff timer of a lookup fires and fn is invoked again.
FetchRetry(r) ==
    /\ req[r].pc \in ApiPcs
    /\ req[r].b.at = "sleep"
    /\ Now >= req[r].b.wakeAt
    /\ LET woken == [req[r] EXCEPT !.b = BackoffWake(@)]
           rq2 == IF woken.b.at = "call" THEN Attempt(woken) ELSE woken
       IN
         /\ req' = [req EXCEPT ![r] = rq2]
         /\ hist' = Observed(TRUE)
    /\ UNCHANGED <<rateLimiter, pools, poolEvents, retry, waiter, parse, api, server, lookup>>

\* storePool settles (line 119): the row is inserted, or the insert is
\* rejected by a unique constraint ("storeRejected"), or the database fails.
StorePoolReturn(r) ==
    /\ req[r].pc = "storePool"
    /\ \E dbOk \in BOOLEAN :
         LET rq == req[r]
             poolData == PoolToStore(rq)
             row == PoolRow(poolData)
             stored == dbOk /\ PoolInsertAllowed(poolData)
             rq2 == IF stored
                    THEN [rq EXCEPT !.pc = "storeEvent", !.newPoolId = row.id,
                                    !.insertedPool = TRUE]
                    ELSE IF dbOk THEN Finish(rq, "storeRejected")
                    ELSE Finish(rq, "storeFailed")
         IN /\ pools' = IF stored THEN Append(pools, row) ELSE pools
            /\ req' = [req EXCEPT ![r] = rq2]
            /\ hist' = Observed(FALSE)
    /\ UNCHANGED <<rateLimiter, poolEvents, retry, waiter, parse, api, server, lookup>>

\* storeEvent settles (lines 122-133) and savePoolToDatabase returns.
StoreEventReturn(r) ==
    /\ req[r].pc = "storeEvent"
    /\ \E dbOk \in BOOLEAN :
         LET rq == req[r]
             eventData == EventToStore(rq)
             stored == dbOk /\ EventInsertAllowed(eventData)
             rq2 == IF stored
                    THEN Finish([rq EXCEPT !.insertedEvent = TRUE], "saved")
                    ELSE Finish(rq, "eventFailed")
         IN /\ poolEvents' = IF stored THEN Append(poolEvents, EventRow(eventData))
                             ELSE poolEvents
            /\ req' = [req EXCEPT ![r] = rq2]
            /\ hist' = Observed(FALSE)
    /\ UNCHANGED <<rateLimiter, pools, retry, waiter, parse, api, server, lookup>>

\* Whether the passing of time can still be told: a timer is pending, or the
\* last release or the last outbound call is less than delay old.
TimeMatters ==
    \/ \E r \in Requests : req[r].pc = "limiter" /\ req[r].wakeAt > Now
    \/ \E r \in Requests : /\ req[r].pc \in ApiPcs
                            /\ req[r].b.at = "sleep"
                            /\ req[r].b.wakeAt > Now
    \/ Now - rateLimiter.lastCall < rateLimiter.delay
    \/ hist.apiCalls > 0 /\ Now - hist.lastApi < rateLimiter.delay

\* A second passes.
PipelineTick ==
    /\ TimeMatters
    /\ rateLimiter' = TickLimiter(rateLimiter)
    /\ hist' = TickHist(hist, rateLimiter)
    /\ req' = [r \in Requests |->
                 [req[r] EXCEPT !.b = TickBackoff(@),
                                !.wakeAt = IF req[r].pc = "limiter" THEN Sooner(@) ELSE @]]
    /\ UNCHANGED <<pools, poolEvents, retry, waiter, parse, api, server, lookup>>

-----------------------------------------------------------------------------
(* GET /api/pools and GET /api/pools/apy *)

PoolsLimit == 50          \* getAllPools(50)
ApyLimit == 25            \* getPoolsWithApy(25)

\* The first n entries of s.
Take(s, n) == SubSeq(s, 1, IF Len(s) < n THEN Len(s) ELSE n)

\* orderBy: { createdAt: 'desc' }: rows are kept in insertion order.
NewestFirst(rows) == [i \in 1..Len(rows) |-> rows[Len(rows) + 1 - i]]

\* DatabaseClient.getAllPools(limit).
getAllPools(rows, limit) == Take(NewestFirst(rows), limit)

\* The position in rows of the row that orderBy: { apy: 'desc' } puts first;
\* among rows of equal apy the database returns any: the first of them when
\* tie is "first", the last otherwise.
BestAt(rows, tie) ==
    LET top == {i \in 1..Len(rows) : \A j \in 1..Len(rows) : rows[j].apy <= rows[i].apy}
    IN IF tie = "first"
       THEN CHOOSE i \in top : \A j \in top : i <= j
       ELSE CHOOSE i \in top : \A j \in top : j <= i

RECURSIVE ApyDescending(_, _)
ApyDescending(rows, tie) ==
    IF rows = <<>> THEN <<>>
    ELSE LET k == BestAt(rows, tie)
         IN <<rows[k]>> \o ApyDescending(SubSeq(rows, 1, k - 1) \o SubSeq(rows, k + 1, Len(rows)), tie)

\* where: { apy: { not: null } }.
HasApy(pool) == pool.apy # NullNum

\* A query without the where clause of lines 115-117.
getPoolsWithApyUnfiltered(rows, limit, tie) == Take(ApyDescending(rows, tie), limit)

\* DatabaseClient.getPoolsWithApy(limit).
getPoolsWithApy(rows, limit, tie) ==
    Take(ApyDescending(SelectSeq(rows, HasApy), tie), limit)

\* The entry GET /api/pools makes of a row (lines 394-405): the row has no
\* mintAddress, symbol, name, price, apySource or apyProject, so these are
\* undefined.
PoolsEntry(pool) ==
    [id |-> pool.id, mintAddress |-> Null, symbol |-> Null, name |-> Null,
     apy |-> pool.apy, tvl |-> pool.tvl, price |-> NullNum,
     apySource |-> Null, apyProject |-> Null]

\* The entry GET /api/pools/apy makes of a row (lines 419-428).
ApyEntry(pool) ==
    [id |-> pool.id, symbol |-> Null, name |-> Null, apy |-> pool.apy, tvl |-> pool.tvl,
     apyProject |-> Null, apyUrl |-> Null]

\* pools.map(pool => ({...})) of either route.
PoolsEntries(rows) == [i \in 1..Len(rows) |-> PoolsEntry(rows[i])]
ApyEntries(rows) == [i \in 1..Len(rows) |-> ApyEntry(rows[i])]

\* No request answered yet; a 200 answer { total, pools }; a 500 answer.
IdleApi == [route |-> "none", status |-> 0, total |-> 0, pools |-> <<>>]
ApiOk(route, entries) ==
    [route |-> route, status |-> 200, total |-> Len(entries), pools |-> entries]
ApiError(route) == [route |-> route, status |-> 500, total |-> 0, pools |-> <<>>]

\* GET /api/pools is answered.
GetPools ==
    /\ \E dbOk \in BOOLEAN :
         api' = IF dbOk THEN ApiOk("pools", PoolsEntries(getAllPools(pools, PoolsLimit)))
                ELSE ApiError("pools")
    /\ UNCHANGED <<rateLimiter, pools, poolEvents, req, retry, waiter, hist, parse, server, lookup>>

\* GET /api/pools/apy is answered.
GetPoolsApy ==
    /\ \E dbOk \in BOOLEAN, tie \in {"first", "last"} :
         api' = IF dbOk
                THEN ApiOk("apy", ApyEntries(getPoolsWithApy(pools, ApyLimit, tie)))
                ELSE ApiError("apy")
    /\ UNCHANGED <<rateLimiter, pools, poolEvents, req, retry, waiter, hist, parse, server, lookup>>

\* The pools tables read through the API: n rows whose apy follows a pattern.
ApyPatterns == {"rising", "falling", "mixed", "sparse", "pairs", "none"}

PatternApy(pattern, i) ==
    CASE pattern = "rising" -> i
      [] pattern = "falling" -> MaxPools + 1 - i
      [] pattern = "mixed" -> IF i % 3 = 0 THEN NullNum ELSE ((i * 7) % 5) + 1
      [] pattern = "sparse" -> IF i % 13 = 0 THEN NullNum ELSE ((i * 7) % 5) + 1
      [] pattern = "pairs" -> (i + 1) \div 2
      [] OTHER -> NullNum

StoredRow(i, apy) ==
    [id |-> i, tokenA |-> "TokenA", tokenB |-> "TokenB",
     poolAddress |-> "Pool" \o ToString(i), source |-> "RAYDIUM",
     signature |-> "sig" \o ToString(i),
     apy |-> apy, tvl |-> IF apy = NullNum THEN NullNum ELSE 100 * i,
     volume24h |-> NullNum]

-----------------------------------------------------------------------------
(* The process: startServer, SIGINT / SIGTERM and cleanup *)

\* at: "connecting" (startServer awaits connect), "listening", "exited".
\* cleanup: "disconnecting" while cleanup() awaits disconnect; disconnected:
\* prisma.$disconnect() has resolved.
Starting ==
    [at |-> "connecting", connected |-> FALSE, connectFailed |-> FALSE,
     exitCode |-> NullNum, cleanup |-> "idle", disconnected |-> FALSE]

Listening == [Starting EXCEPT !.at = "listening", !.connected = TRUE]

\* A startServer that listens whether or not connect() succeeded.
AfterConnectListens(sv, ok) ==
    [sv EXCEPT !.at = "listening", !.connected = ok, !.connectFailed = ~ok]

\* startServer after await databaseClient.connect(), lines 458-479.
AfterConnect(sv, ok) ==
    IF ok THEN [sv EXCEPT !.at = "listening", !.connected = TRUE]
    ELSE [sv EXCEPT !.at = "exited", !.connectFailed = TRUE, !.exitCode = 1]

Alive == server.at # "exited"

\* databaseClient.connect() settles.
ConnectReturn ==
    /\ server.at = "connecting"
    /\ \E ok \in BOOLEAN : server' = AfterConnect(server, ok)
    /\ UNCHANGED <<rateLimiter, pools, poolEvents, req, retry, waiter, hist, parse, api, lookup>>

\* SIGINT or SIGTERM: cleanup() runs to its await (lines 446-447).
Signal ==
    /\ Alive
    /\ server.cleanup = "idle"
    /\ server' = [server EXCEPT !.cleanup = "disconnecting"]
    /\ UNCHANGED <<rateLimiter, pools, poolEvents, req, retry, waiter, hist, parse, api, lookup>>

\* A cleanup that closes the connection and leaves the process running.
AfterDisconnectStaysUp(sv, ok) == [sv EXCEPT !.cleanup = "done", !.disconnected = ok]

\* cleanup() after await databaseClient.disconnect(), lines 447-448:
\* process.exit(0) follows in the same turn; a rejection is unhandled and ends
\* the process with code 1.
AfterDisconnect(sv, ok) ==
    IF ok THEN [sv EXCEPT !.at = "exited", !.exitCode = 0, !.disconnected = TRUE]
    ELSE [sv EXCEPT !.at = "exited", !.exitCode = 1]

\* disconnect() settles.
CleanupExit ==
    /\ Alive
    /\ server.cleanup = "disconnecting"
    /\ \E ok \in BOOLEAN : server' = AfterDisconnect(server, ok)
    /\ UNCHANGED <<rateLimiter, pools, poolEvents, req, retry, waiter, hist, parse, api, lookup>>

-----------------------------------------------------------------------------
(* DatabaseClient.updatePoolApy called on a table that the pipeline fills *)

MaxStoreRows == 2

\* The values updatePoolApy is given: yield data, or null (reading apyData.apy
\* then throws inside the try of line 130 and nothing is written).
ApyUpdates == {[nullish |-> FALSE, apy |-> 9, tvl |-> 900], NoApyData}

\* updatePoolApy(poolAddress, apyData) settles: the row is updated, or the
\* call throws (no such row, null apyData, the database failing).
UpdatePoolApy ==
    /\ \E poolAddress \in PoolAddresses \cup {"Missing"}, apyData \in ApyUpdates,
          dbOk \in BOOLEAN :
         pools' = IF dbOk /\ poolExists(poolAddress) /\ ~apyData.nullish
                  THEN updatePoolApy(pools, poolAddress, apyData)
                  ELSE pools
    /\ UNCHANGED <<rateLimiter, poolEvents, req, retry, waiter, hist, parse, api, server, lookup>>

-----------------------------------------------------------------------------
(* A yield lookup's result stored and read back *)

MaxPersistListing == 1

\* What savePoolToDatabase does with the result of its yield lookup, lines
\* 98-119: poolToStore is built from the candidate and apyData, and storePool
\* inserts it.
StoreLookup ==
    /\ lookup.at = "done"
    /\ LET rq == [IdleReq EXCEPT !.cand = parsePoolFromTransaction(T1),
                                 !.apyData = lookup.result]
           poolData == PoolToStore(rq)
       IN /\ PoolInsertAllowed(poolData)
          /\ pools' = Append(pools, PoolRow(poolData))
    /\ lookup' = [lookup EXCEPT !.at = "stored"]
    /\ UNCHANGED <<rateLimiter, poolEvents, req, retry, waiter, hist, parse, api, server>>

-----------------------------------------------------------------------------
(* Specifications *)

InitStores ==
    /\ pools = <<>>
    /\ poolEvents = <<>>
    /\ req = [r \in Requests |-> IdleReq]
    /\ hist = InitHist
    /\ parse = IdleParse
    /\ api = IdleApi
    /\ server = Listening
    /\ lookup = IdleLookup

\* The server after startServer: connected, listening, nothing delivered yet.
Init ==
    /\ InitStores
    /\ rateLimiter = NewRateLimiter(ServerDelay)
    /\ retry = IdleRetry
    /\ waiter = IdleWaiter

Next ==
    \/ \E r \in Requests : Receive(r)
    \/ \E r \in Requests : PoolExistsReturn(r)
    \/ \E r \in Requests : LimiterWake(r)
    \/ \E r \in Requests : FetchReturn(r)
    \/ \E r \in Requests : FetchRetry(r)
    \/ \E r \in Requests : StorePoolReturn(r)
    \/ \E r \in Requests : StoreEventReturn(r)
    \/ PipelineTick

Spec == Init /\ [][Next]_vars

\* withBackoff(fn, maxRetries) around one adapter's request.
InitRetry ==
    /\ InitStores
    /\ rateLimiter = NewRateLimiter(ServerDelay)
    /\ waiter = IdleWaiter
    /\ \E client \in {"jupiter", "defillama"}, maxRetries \in 0..MaxRetriesBound :
         retry = [IdleRetry EXCEPT !.client = client, !.b = NewBackoff(maxRetries)]

NextRetry == RetryInvoke \/ RetryWake \/ RetryTick

SpecRetry == InitRetry /\ [][NextRetry]_vars

\* A fresh RateLimiter(delay) whose wait() is called again and again, each call
\* awaited before the next.
InitLimiter ==
    /\ InitStores
    /\ retry = IdleRetry
    /\ waiter = IdleWaiter
    /\ \E delay \in 1..MaxDelay : rateLimiter = NewRateLimiter(delay)

NextLimiter == WaiterCall \/ WaiterWake \/ WaiterTick

SpecLimiter == InitLimiter /\ [][NextLimiter]_vars

\* parsePoolFromTransaction applied to one transaction.
InitParse ==
    /\ pools = <<>>
    /\ poolEvents = <<>>
    /\ req = [r \in Requests |-> IdleReq]
    /\ hist = InitHist
    /\ api = IdleApi
    /\ server = Listening
    /\ lookup = IdleLookup
    /\ rateLimiter = NewRateLimiter(ServerDelay)
    /\ retry = IdleRetry
    /\ waiter = IdleWaiter
    /\ \E tx \in ParseInputs : parse = [IdleParse EXCEPT !.at = "input", !.tx = tx]

NextParse == ParseCall

SpecParse == InitParse /\ [][NextParse]_vars

\* The API routes reading a pools table.
InitApi ==
    /\ poolEvents = <<>>
    /\ req = [r \in Requests |-> IdleReq]
    /\ hist = InitHist
    /\ parse = IdleParse
    /\ api = IdleApi
    /\ server = Listening
    /\ lookup = IdleLookup
    /\ rateLimiter = NewRateLimiter(ServerDelay)
    /\ retry = IdleRetry
    /\ waiter = IdleWaiter
    /\ \E n \in 0..MaxPools, pattern \in ApyPatterns :
         pools = [i \in 1..n |-> StoredRow(i, PatternApy(pattern, i))]

NextApi == GetPools \/ GetPoolsApy

SpecApi == InitApi /\ [][NextApi]_vars

\* The process from its start to its exit, one delivery at a time.
InitServer ==
    /\ pools = <<>>
    /\ poolEvents = <<>>
    /\ req = [r \in Requests |-> IdleReq]
    /\ hist = InitHist
    /\ parse = IdleParse
    /\ api = IdleApi
    /\ server = Starting
    /\ lookup = IdleLookup
    /\ rateLimiter = NewRateLimiter(ServerDelay)
    /\ retry = IdleRetry
    /\ waiter = IdleWaiter

NextServer ==
    \/ ConnectReturn
    \/ Signal
    \/ CleanupExit
    \/ Alive /\ Receive(1)
    \/ Alive /\ PoolExistsReturn(1)
    \/ Alive /\ LimiterWake(1)
    \/ Alive /\ FetchReturn(1)
    \/ Alive /\ FetchRetry(1)
    \/ Alive /\ StorePoolReturn(1)
    \/ Alive /\ StoreEventReturn(1)
    \/ Alive /\ PipelineTick

SpecServer == InitServer /\ [][NextServer]_vars

\* A pools table of some rows, one delivery at a time, and updatePoolApy.
InitStore ==
    /\ poolEvents = <<>>
    /\ req = [r \in Requests |-> IdleReq]
    /\ hist = InitHist
    /\ parse = IdleParse
    /\ api = IdleApi
    /\ server = Listening
    /\ lookup = IdleLookup
    /\ rateLimiter = NewRateLimiter(ServerDelay)
    /\ retry = IdleRetry
    /\ waiter = IdleWaiter
    /\ \E n \in 0..MaxStoreRows : pools = [i \in 1..n |-> StoredRow(i, PatternApy("rising", i))]

NextStore ==
    \/ UpdatePoolApy
    \/ Receive(1)
    \/ PoolExistsReturn(1)
    \/ LimiterWake(1)
    \/ FetchReturn(1)
    \/ FetchRetry(1)
    \/ StorePoolReturn(1)
    \/ StoreEventReturn(1)
    \/ PipelineTick

SpecStore == InitStore /\ [][NextStore]_vars

\* getBestApyForMint applied to one listing and one mint.
InitYield ==
    /\ pools = <<>>
    /\ poolEvents = <<>>
    /\ req = [r \in Requests |-> IdleReq]
    /\ hist = InitHist
    /\ parse = IdleParse
    /\ api = IdleApi
    /\ server = Listening
    /\ rateLimiter = NewRateLimiter(ServerDelay)
    /\ retry = IdleRetry
    /\ waiter = IdleWaiter
    /\ \E listing \in GeneratedNames \cup {"L1", "L2"}, mint \in YieldMints :
         lookup = [IdleLookup EXCEPT !.at = "input", !.listing = listing, !.mint = mint]

NextYield == YieldCall

SpecYield == InitYield /\ [][NextYield]_vars

\* A yield lookup, the insert of its result and GET /api/pools/apy.
InitPersist ==
    /\ pools = <<>>
    /\ poolEvents = <<>>
    /\ req = [r \in Requests |-> IdleReq]
    /\ hist = InitHist
    /\ parse = IdleParse
    /\ api = IdleApi
    /\ server = Listening
    /\ rateLimiter = NewRateLimiter(ServerDelay)
    /\ retry = IdleRetry
    /\ waiter = IdleWaiter
    /\ \E n \in 0..MaxPersistListing, mint \in YieldMints :
         \E code \in 0..((YieldKinds ^ n) - 1) :
             lookup = [IdleLookup EXCEPT !.at = "input", !.listing = ListingName(n, code),
                                         !.mint = mint]

NextPersist == YieldCall \/ StoreLookup \/ GetPoolsApy

SpecPersist == InitPersist /\ [][NextPersist]_vars

\* One delivery followed from its arrival to its answer, its fetch()
\* invocations counted; every pending call settles and every timer fires.
InitBatch ==
    /\ pools = <<>>
    /\ poolEvents = <<>>
    /\ req = [r \in Requests |-> [IdleReq EXCEPT !.attempts = 0]]
    /\ hist = InitHist
    /\ parse = IdleParse
    /\ api = IdleApi
    /\ server = Listening
    /\ lookup = IdleLookup
    /\ rateLimiter = NewRateLimiter(ServerDelay)
    /\ retry = IdleRetry
    /\ waiter = IdleWaiter

NextBatch ==
    \/ Receive(1)
    \/ PoolExistsReturn(1)
    \/ LimiterWake(1)
    \/ FetchReturn(1)
    \/ FetchRetry(1)
    \/ StorePoolReturn(1)
    \/ StoreEventReturn(1)
    \/ PipelineTick

SpecBatch ==
    /\ InitBatch
    /\ [][NextBatch]_vars
    /\ WF_vars(PoolExistsReturn(1))
    /\ WF_vars(LimiterWake(1))
    /\ WF_vars(FetchReturn(1))
    /\ WF_vars(FetchRetry(1))
    /\ WF_vars(StorePoolReturn(1))
    /\ WF_vars(StoreEventReturn(1))
    /\ WF_vars(PipelineTick)

-----------------------------------------------------------------------------
(* Properties *)

\* The candidates a delivery's body holds, as processWebhookPayload finds them.
BodyCandidates(body) ==
    {parsePoolFromTransaction(body.items[i]) :
        i \in {j \in 1..Len(body.items) :
                 /\ ~body.items[j].nullish
                 /\ AcceptedType(body.items[j].type)
                 /\ ~parsePoolFromTransaction(body.items[j]).nullish}}

RowsOf(poolAddress) == {i \in 1..Len(pools) : pools[i].poolAddress = poolAddress}

\* C1: a failure of enrichment (the yield lookup throwing after its retries,
\* or a token lookup failing) never keeps a pool from being persisted: the
\* save goes on to the insert, and after a yield failure the row stored has
\* apy and tvl null.
C1_EnrichmentFailureStillPersists ==
    \A r \in Requests :
        LET l == req[r].last IN
        (l.outcome # "none" /\ (l.yieldThrew \/ l.tokenFailed)) =>
            /\ l.outcome \in {"saved", "eventFailed", "storeFailed", "storeRejected"}
            /\ l.outcome \in {"saved", "eventFailed"} =>
                 \E i \in RowsOf(l.poolAddress) :
                     l.yieldThrew => pools[i].apy = NullNum /\ pools[i].tvl = NullNum

\* C2: there is at most one pool record per poolAddress, and the first writer
\* wins: however deliveries interleave, a row once written is never replaced
\* or changed by a later candidate.
C2_OnePoolPerAddress ==
    [][/\ \A i, j \in 1..Len(pools') :
            pools'[i].poolAddress = pools'[j].poolAddress => i = j
       /\ Len(pools') >= Len(pools)
       /\ \A i \in 1..Len(pools) : pools'[i] = pools[i]]_vars

\* C2 witness: a candidate for an address already stored under another
\* signature reached the insert and was turned away.
C2_Witness ==
    \E r \in Requests :
        /\ req[r].last.outcome = "storeRejected"
        /\ \E i \in RowsOf(req[r].last.poolAddress) :
               pools[i].signature # req[r].last.signature

\* C3: the same payload submitted twice in succession, the database answering
\* every query, yields exactly one pool record per candidate, and the second
\* submission inserts neither a pool record nor an event record.
C3_SecondSubmissionInsertsNothing ==
    \A r \in Requests :
        (/\ req[r].resub
         /\ req[r].pc = "responded"
         /\ req[r].status = 200
         /\ \A o \in Requests :
                req[o].last.outcome \notin {"existsFailed", "storeFailed", "eventFailed"}) =>
            /\ ~req[r].insertedPool
            /\ ~req[r].insertedEvent
            /\ \A c \in BodyCandidates(req[r].body) :
                   Cardinality(RowsOf(c.poolAddress)) = 1

\* C4: a failure while processing element i of a batch, a malformed or null
\* element included, is caught and does not abort the batch: when the
\* delivery is answered every element has been gone through.
C4_BatchSurvivesBadElement ==
    \A r \in Requests :
        (req[r].pc = "responded" /\ req[r].body.kind = "array") =>
            /\ req[r].idx = Len(req[r].body.items) + 1
            /\ req[r].status = 200

\* C5: POST /webhook/helius takes a single transaction object as a batch of
\* one and answers 200.
C5_SingleObjectAccepted ==
    \A r \in Requests :
        (req[r].pc = "responded" /\ req[r].body.kind = "object") =>
            /\ req[r].status = 200
            /\ req[r].idx = Len(LegacyTransactions(req[r].body)) + 1

\* C6: every outbound API call passes the RateLimiter: two consecutive calls
\* never start less than delay apart.
C6_EveryApiCallSpaced == ~hist.apiTooClose

\* C7: with wait() called sequentially, two consecutive releases are at least
\* delay apart, and the first wait() on a fresh RateLimiter does not sleep.
C7_ReleasesSpaced ==
    /\ ~hist.releaseTooClose
    /\ hist.releases = 0 => waiter.at = "idle"

\* C7 witness: a second wait() has just returned.
C7_Witness ==
    /\ hist.releases = 2
    /\ rateLimiter.lastCall = Now
    /\ waiter.at = "idle"
    /\ rateLimiter.delay > 1

\* C8: withBackoff returns the value of the first invocation that succeeds,
\* the k-th, after exactly k invocations and k-1 waits; when every invocation
\* fails, fn is invoked exactly maxRetries times and the error of the last
\* invocation is thrown.
C8_InvocationsAndWaits ==
    /\ retry.invocations <= retry.b.maxRetries
    /\ retry.b.at = "call" => Len(retry.waits) = retry.invocations
    /\ (retry.b.at = "returned" /\ retry.b.maxRetries > 0) =>
          /\ retry.lastOutcome.ok
          /\ retry.b.result = retry.lastOutcome.value
          /\ Len(retry.waits) = retry.invocations - 1
    /\ retry.b.at = "thrown" =>
          /\ retry.invocations = retry.b.maxRetries
          /\ Len(retry.waits) = retry.b.maxRetries - 1
          /\ ~retry.lastOutcome.ok
          /\ retry.b.error = retry.lastOutcome.error
          /\ retry.b.error.attempt = retry.b.maxRetries

\* C8 witness: the third invocation succeeded after two failures.
C8_Witness ==
    /\ retry.b.at = "returned"
    /\ retry.invocations = 3
    /\ Len(retry.waits) = 2

\* C9: no wait precedes the first attempt, the wait after failed attempt i
\* (from 0) is 2^i seconds, and with maxRetries = 3 and every attempt failing
\* the waits performed are 1s, 2s and 4s.
C9_ThreeWaitsBeforeThrow ==
    /\ retry.invocations = 0 => retry.waits = <<>>
    /\ Len(retry.waits) > 0 => retry.waits[1] = 1
    /\ \A j \in 2..Len(retry.waits) : retry.waits[j] = 2 * retry.waits[j - 1]
    /\ (retry.b.at = "thrown" /\ retry.b.maxRetries = 3) => retry.waits = <<1, 2, 4>>

\* The statuses of responses that are not 2xx.
ErrorStatuses == {s \in Statuses : s # 0 /\ ~ResponseOk(Response(s, "none"))}

\* The last response was thrown as an error and is retried, or was rethrown
\* after the last attempt.
ThrownAndRetried ==
    \/ /\ retry.b.at \in {"sleep", "call"}
       /\ retry.invocations < retry.b.maxRetries
    \/ /\ retry.b.at = "thrown"
       /\ retry.invocations = retry.b.maxRetries
       /\ retry.b.error.status = retry.lastStatus

\* The call ended with null at the last response, with no retry.
ShortCircuited ==
    /\ retry.b.at = "returned"
    /\ retry.b.result = Null

\* C10 as stated: in both adapters a 404 ends the call with null after that
\* one attempt, and every other non-2xx response is thrown and retried.
C10_NotFoundIsNullInBothAdapters ==
    /\ retry.lastStatus = 404 => ShortCircuited
    /\ retry.lastStatus \in ErrorStatuses \ {404} => ThrownAndRetried

\* C10: in JupiterClient a 404 ends the call with null after that one attempt
\* and every other non-2xx response is thrown and retried; in DefiLlamaClient
\* every non-2xx response, 404 included, is thrown and retried.
C10_NotFoundIsNullInJupiterOnly ==
    /\ (retry.client = "jupiter" /\ retry.lastStatus = 404) => ShortCircuited
    /\ (retry.client = "jupiter" /\ retry.lastStatus \in ErrorStatuses \ {404})
           => ThrownAndRetried
    /\ (retry.client = "defillama" /\ retry.lastStatus \in ErrorStatuses)
           => ThrownAndRetried

\* C10 witness: DefiLlamaClient is about to ask again after a 404.
C10_Witness ==
    /\ retry.client = "defillama"
    /\ retry.lastStatus = 404
    /\ retry.b.at = "call"
    /\ retry.invocations = 1

\* The distinct non-empty mints other than the SOL mint among the entries of a
\* tokenTransfers array.
DistinctMints(transfers) ==
    {m \in SeqToSet(transfers.items) : m \notin {"", Null, NullEntry, SOL_MINT}}

\* The infrastructure program identifiers.
ProgramIds == {TOKEN_PROGRAM, SYSTEM_PROGRAM, ATA_PROGRAM, RAYDIUM_PROGRAM}

\* C11: parsePoolFromTransaction returns null for every transaction whose
\* tokenTransfers is absent, has fewer than 2 entries, or holds fewer than 2
\* distinct non-empty mints other than the SOL mint.
C11_TooFewMintsIsNull ==
    (/\ parse.at = "done"
     /\ ~parse.tx.nullish
     /\ \/ parse.tx.tokenTransfers.kind = "absent"
        \/ /\ parse.tx.tokenTransfers.kind = "array"
           /\ \/ Len(parse.tx.tokenTransfers.items) < 2
              \/ Cardinality(DistinctMints(parse.tx.tokenTransfers)) < 2)
    => parse.result = NoCandidate

\* C11 witness: three transfers, but of one token and SOL only.
C11_Witness ==
    /\ parse.at = "done"
    /\ parse.tx.tokenTransfers = Arr(<<"TokenA", SOL_MINT, "TokenA">>)
    /\ parse.tx.accountData = Arr(<<"feePayer", "PoolAcct", "TokenA", "TokenB">>)
    /\ parse.result = NoCandidate

\* tokenA and tokenB are the first and the second distinct mint of the
\* transfers, in the order they are met.
FirstTwoInOrder(items, tokenA, tokenB) ==
    LET Counts(m) == m \notin {"", Null, NullEntry, SOL_MINT} IN
    \E i, j \in 1..Len(items) :
        /\ i < j
        /\ items[i] = tokenA
        /\ items[j] = tokenB
        /\ tokenA # tokenB
        /\ \A k \in 1..(i - 1) : ~Counts(items[k])
        /\ \A k \in 1..(j - 1) : Counts(items[k]) => items[k] = tokenA

\* C12 as stated: for every transaction with at least 2 distinct mints other
\* than SOL among its tokenTransfers the parser returns a candidate whose
\* tokenA and tokenB are the first two of them in transfer order.
C12_TwoMintsAlwaysParsed ==
    (/\ parse.at = "done"
     /\ ~parse.tx.nullish
     /\ parse.tx.tokenTransfers.kind = "array"
     /\ Cardinality(DistinctMints(parse.tx.tokenTransfers)) >= 2)
    => /\ ~parse.result.nullish
       /\ FirstTwoInOrder(parse.tx.tokenTransfers.items,
                          parse.result.tokenA, parse.result.tokenB)

\* Every entry of tokenTransfers and of accountData is an object, and
\* accountData is an array when it is there.
WellFormedEntries(tx) ==
    /\ NullEntry \notin SeqToSet(tx.tokenTransfers.items)
    /\ tx.accountData.kind # "other"
    /\ NullEntry \notin SeqToSet(tx.accountData.items)

\* C12: for every transaction with at least 2 distinct mints other than SOL
\* among its tokenTransfers, no null entry in tokenTransfers or accountData and
\* accountData absent or an array, the parser returns a candidate whose tokenA
\* and tokenB are the first two distinct mints in transfer order, tokenA #
\* tokenB.
C12_TwoMintsParsedWhenWellFormed ==
    (/\ parse.at = "done"
     /\ ~parse.tx.nullish
     /\ parse.tx.tokenTransfers.kind = "array"
     /\ Cardinality(DistinctMints(parse.tx.tokenTransfers)) >= 2
     /\ WellFormedEntries(parse.tx))
    => /\ ~parse.result.nullish
       /\ FirstTwoInOrder(parse.tx.tokenTransfers.items,
                          parse.result.tokenA, parse.result.tokenB)

\* C12 witness: TokenB is met before TokenA, and comes out as tokenA.
C12_Witness ==
    /\ parse.at = "done"
    /\ parse.tx.tokenTransfers = Arr(<<SOL_MINT, "TokenB", "TokenA">>)
    /\ parse.result.tokenA = "TokenB"
    /\ parse.result.tokenB = "TokenA"

\* The positions of the accounts that can be the pool's.
Qualifying(tx) ==
    {i \in 1..Len(tx.accountData.items) :
        LET a == tx.accountData.items[i] IN
        /\ a \notin {"", Null, NullEntry}
        /\ a # tx.feePayer
        /\ a \notin DistinctMints(tx.tokenTransfers)
        /\ a # SOL_MINT
        /\ a \notin ProgramIds}

\* C13: a candidate's poolAddress is the first account of the account list
\* that is not the fee payer, a mint of the transfers, the SOL mint or one of
\* the four program ids; it is the signature when no account qualifies or the
\* list is absent.
C13_PoolAddressIsFirstQualifying ==
    (parse.at = "done" /\ ~parse.result.nullish) =>
        LET q == Qualifying(parse.tx) IN
        IF q = {} THEN parse.result.poolAddress = parse.tx.signature
        ELSE \E i \in q :
                /\ \A j \in q : i <= j
                /\ parse.result.poolAddress = parse.tx.accountData.items[i]

\* C13 witness: the fee payer, a mint and a program id come before the pool
\* account.
C13_Witness ==
    /\ parse.at = "done"
    /\ parse.tx.accountData = Arr(<<"feePayer", "TokenA", RAYDIUM_PROGRAM, "PoolAcct", "Other">>)
    /\ parse.tx.tokenTransfers = Arr(<<"TokenA", "TokenB">>)
    /\ parse.result.poolAddress = "PoolAcct"

\* The example transaction: its account list is given as accounts.
ExampleTx ==
    [Tx("CREATE_POOL", Null, "sig1", Arr(<<"TokenA", SOL_MINT, "TokenB">>), Absent, "feePayer")
        EXCEPT !.accounts = LegacyAccounts]

\* The same transaction with its account list given as accountData.
ExampleTxAccountData ==
    Tx("CREATE_POOL", Null, "sig1", Arr(<<"TokenA", SOL_MINT, "TokenB">>),
       Arr(<<"feePayer", "PoolAcct", "TokenA", "TokenB">>), "feePayer")

\* C14 as stated: the example transaction (account list given as accounts)
\* parses to tokenA = TokenA, tokenB = TokenB, poolAddress = PoolAcct,
\* signature = sig1, source = "unknown".
C14_ExampleParsesToPoolAcct ==
    (parse.at = "done" /\ parse.tx = ExampleTx) =>
        parse.result = Candidate("TokenA", "TokenB", "PoolAcct", "sig1", "unknown")

\* C14: the example transaction parses to tokenA = TokenA, tokenB = TokenB,
\* signature = sig1, source = "unknown"; its poolAddress is PoolAcct when the
\* account list is given as accountData entries, and the signature sig1 when
\* it is given as accounts, which the parser does not read.
C14_ExampleParsesByAccountData ==
    /\ (parse.at = "done" /\ parse.tx = ExampleTx) =>
          parse.result = Candidate("TokenA", "TokenB", "sig1", "sig1", "unknown")
    /\ (parse.at = "done" /\ parse.tx = ExampleTxAccountData) =>
          parse.result = Candidate("TokenA", "TokenB", "PoolAcct", "sig1", "unknown")

\* C14 witness: the example transaction has been parsed.
C14_Witness ==
    /\ parse.at = "done"
    /\ parse.tx = ExampleTx
    /\ parse.result.poolAddress = "sig1"

C16_ParseNeverThrows ==
    parse.at = "done" =>
        /\ ~parse.result.threw
        /\ (\/ parse.tx.nullish
            \/ parse.tx.tokenTransfers.kind = "other"
            \/ NullEntry \in SeqToSet(parse.tx.tokenTransfers.items)
            \/ /\ Len(parse.tx.accountData.items) > 0
               /\ parse.tx.accountData.items[1] = NullEntry)
           => parse.result = NoCandidate

\* C16 witness: two mints, and a null entry at the head of accountData.
C16_Witness ==
    /\ parse.at = "done"
    /\ parse.tx.tokenTransfers = Arr(<<"TokenA", "TokenB">>)
    /\ parse.tx.accountData = Arr(<<NullEntry, "PoolAcct">>)
    /\ parse.result = NoCandidate

\* The stored rows that have an apy.
RowsWithApy == {j \in 1..Len(pools) : pools[j].apy # NullNum}

\* C17: GET /api/pools/apy returns only records whose apy is not null, in
\* non-increasing apy order, at most 25 of them, and they are the 25 stored
\* records of highest apy among those with an apy.
C17_ApyRouteReturnsTop25 ==
    (api.route = "apy" /\ api.status = 200) =>
        /\ api.total = Len(api.pools)
        /\ Len(api.pools) <= 25
        /\ Len(api.pools) = IF Cardinality(RowsWithApy) < 25
                            THEN Cardinality(RowsWithApy) ELSE 25
        /\ \A i \in 1..Len(api.pools) :
              /\ api.pools[i].apy # NullNum
              /\ \E j \in RowsWithApy : /\ pools[j].id = api.pools[i].id
                                        /\ pools[j].apy = api.pools[i].apy
        /\ \A i, k \in 1..Len(api.pools) :
              /\ i < k => api.pools[i].apy >= api.pools[k].apy
              /\ i # k => api.pools[i].id # api.pools[k].id
        /\ \A j \in RowsWithApy :
              (\A i \in 1..Len(api.pools) : api.pools[i].id # pools[j].id) =>
                  \A i \in 1..Len(api.pools) : pools[j].apy <= api.pools[i].apy

\* C17 witness: 28 rows, two of them without an apy, and 25 returned.
C17_Witness ==
    /\ api.route = "apy"
    /\ api.status = 200
    /\ Len(pools) = 28
    /\ Cardinality(RowsWithApy) = 26
    /\ api.total = 25

\* C18: each entry of the GET /api/pools response carries tokenA, tokenB and
\* poolAddress of the stored pool record it stands for, and its apy and tvl,
\* with the values persisted.
C18_PoolsEntriesIdentifyPools ==
    (api.route = "pools" /\ api.status = 200) =>
        \A i \in 1..Len(api.pools) :
            LET e == api.pools[i] IN
            \E j \in 1..Len(pools) :
                /\ pools[j].id = e.id
                /\ {"tokenA", "tokenB", "poolAddress", "apy", "tvl"} \subseteq DOMAIN e
                /\ e.tokenA = pools[j].tokenA
                /\ e.tokenB = pools[j].tokenB
                /\ e.poolAddress = pools[j].poolAddress
                /\ e.apy = pools[j].apy
                /\ e.tvl = pools[j].tvl

\* C19: the server listens, and so takes a webhook, only after connect() has
\* succeeded; when connect() fails the process exits with code 1 and never
\* listens.
C19_ListenOnlyAfterConnect ==
    /\ server.at = "listening" => server.connected
    /\ (\E r \in Requests : req[r].pc # "none") => server.connected
    /\ server.connectFailed =>
          /\ server.at = "exited"
          /\ server.exitCode = 1
          /\ ~server.connected
          /\ \A r \in Requests : req[r].pc = "none"

\* C19 witness: a webhook was taken and answered after connect() succeeded.
C19_Witness ==
    /\ server.at = "listening"
    /\ server.connected
    /\ req[1].pc = "responded"
    /\ req[1].status = 200

\* C20: processing of a payload, once begun, runs to its end, also when a
\* termination signal arrives meanwhile: the process never exits while a
\* delivery is unanswered.
C20_PayloadNeverCutShort ==
    server.at = "exited" => \A r \in Requests : req[r].pc \in {"none", "responded"}


\* The request is inside savePoolToDatabase for its current element.
InSave(rq) == rq.pc \in {"exists", "limiter", "storePool", "storeEvent"} \cup ApiPcs

\* The two types of line 159.
PoolTransactionTypes == {"ENHANCED_TRANSACTION", "CREATE_POOL"}

\* C21: a transaction whose type is neither ENHANCED_TRANSACTION nor
\* CREATE_POOL is skipped without any effect: only an element of an accepted
\* type is ever inside savePoolToDatabase, with the candidate the parser made
\* of it; the loop passes over an element only when its type is not accepted
\* or the parser returned null; and the scan that skips elements leaves the
\* stores, the limiter and the counts of releases and outbound calls alone.
C21_OnlyAcceptedTypesProcessed ==
    [][\A r \in Requests :
         LET old == req[r]
             new == req'[r]
             items == new.body.items
         IN /\ InSave(new) =>
                 /\ items[new.idx].type \in PoolTransactionTypes
                 /\ new.cand = parsePoolFromTransaction(items[new.idx])
            /\ \A k \in (old.idx + 1)..(new.idx - 1) :
                   /\ ~items[k].nullish
                   /\ items[k].type \notin PoolTransactionTypes \/ parsePoolFromTransaction(items[k]).nullish
            /\ (old.pc = "none" /\ new.pc # "none") =>
                 /\ pools' = pools
                 /\ poolEvents' = poolEvents
                 /\ rateLimiter' = rateLimiter
                 /\ hist'.releases = hist.releases
                 /\ hist'.apiCalls = hist.apiCalls]_vars

\* C21 witness: a batch of a SWAP and an unparseable CREATE_POOL was gone
\* through and answered, and nothing was read, awaited, called or stored.
C21_Witness ==
    \E r \in Requests :
        /\ req[r].body = ArrayBody(<<T3, T4>>)
        /\ req[r].pc = "responded"
        /\ req[r].status = 200
        /\ req[r].idx = 3
        /\ req[r].last.outcome = "none"
        /\ pools = <<>>
        /\ poolEvents = <<>>
        /\ hist.releases = 0
        /\ hist.apiCalls = 0

\* C22: the transactions of one payload are handled one at a time in input
\* order, so a transaction whose poolAddress an earlier transaction of the
\* same payload has persisted never gets past the existence check: it is
\* skipped as a duplicate (or, when the check itself fails, skipped by the
\* catch), without a wait, an outbound call or an insert.
C22_SecondOfPayloadIsDuplicate ==
    \A r \in Requests :
        LET rq == req[r]
            persistedBefore ==
                /\ rq.idx >= 2
                /\ rq.last.outcome \in {"saved", "eventFailed"}
                /\ rq.last.poolAddress = rq.cand.poolAddress
        IN /\ InSave(rq) => rq.idx \in 1..Len(rq.body.items)
           /\ (InSave(rq) /\ persistedBefore) => rq.pc = "exists"
           /\ (/\ rq.insertedPool
               /\ rq.last.outcome # "none"
               /\ \E i \in RowsOf(rq.last.poolAddress), j \in 1..Len(rq.body.items) :
                      /\ ~rq.body.items[j].nullish
                      /\ rq.body.items[j].signature = rq.last.signature
                      /\ \E k \in 1..(j - 1) :
                             /\ ~rq.body.items[k].nullish
                             /\ rq.body.items[k].signature = pools[i].signature) =>
                 rq.last.outcome \in {"duplicate", "existsFailed"}

\* C22 witness: of a payload of two transactions for one pool account the
\* first was persisted with its event and the second skipped as a duplicate.
C22_Witness ==
    \E r \in Requests :
        /\ req[r].body = ArrayBody(<<T1, T2>>)
        /\ req[r].pc = "responded"
        /\ req[r].insertedPool
        /\ req[r].insertedEvent
        /\ req[r].last.outcome = "duplicate"
        /\ req[r].last.signature = "sig2"
        /\ \E i \in RowsOf("PoolAcct") : pools[i].signature = "sig1"

\* C23: when the candidate's poolAddress is already stored, savePoolToDatabase
\* is a no-op: the step that settles its existence check returns (null, without
\* an error reaching the caller), it enters no wait and issues no outbound
\* call, inserts no pool and no event, and leaves every stored row, apy and
\* tvl included, as it was.
C23_ExistingPoolIsNoOp ==
    [][\A r \in Requests :
         (/\ req[r].pc = "exists"
          /\ req'[r] # req[r]
          /\ \E i \in 1..Len(pools) : pools[i].poolAddress = req[r].cand.poolAddress) =>
            /\ req'[r].last.outcome \in {"duplicate", "existsFailed"}
            /\ req'[r].last.signature = req[r].cand.signature
            /\ req'[r].last.issued = <<>>
            /\ req'[r].pc \in {"exists", "responded"}
            /\ req'[r].pc = "responded" => req'[r].status = 200
            /\ req'[r].issued = <<>>
            /\ pools' = pools
            /\ poolEvents' = poolEvents
            /\ rateLimiter' = rateLimiter
            /\ hist'.releases = hist.releases
            /\ hist'.apiCalls = hist.apiCalls]_vars

\* C23 witness: a later delivery's candidate was found stored and skipped;
\* the delivery inserted nothing and the row keeps the first writer's values.
C23_Witness ==
    /\ req[2].pc = "responded"
    /\ req[2].last.outcome = "duplicate"
    /\ ~req[2].insertedPool
    /\ ~req[2].insertedEvent
    /\ \E i \in RowsOf(req[2].last.poolAddress) : pools[i].apy = 7 /\ pools[i].tvl = 300

\* C24: the enrichment of a new candidate runs in order: wait() returns
\* before any outbound call, the yield lookup for tokenB is issued exactly when
\* the one for tokenA returned no result, the apy and tvl kept are tokenA's
\* when it has a result, and the token lookups for tokenA and tokenB follow in
\* every case, so that every save that got past the existence check has gone
\* through one of the two orders in full.
C24_EnrichmentInOrderInEveryCase ==
    \A r \in Requests :
        LET rq == req[r]
            EnrichmentOrders ==
                {<<"wait", "apyA", "tokA", "tokB">>,
                 <<"wait", "apyA", "apyB", "tokA", "tokB">>}
            IsPrefix(s, t) == Len(s) <= Len(t) /\ s = SubSeq(t, 1, Len(s))
        IN
        /\ \E order \in EnrichmentOrders : IsPrefix(rq.issued, order)
        /\ rq.pc \in ApiPcs \cup {"storePool", "storeEvent"} => rq.issued # <<>>
        /\ rq.pc \in {"tokA", "tokB", "storePool", "storeEvent"} =>
             ("apyB" \in SeqToSet(rq.issued) \/ ~rq.apyData.nullish)
        /\ rq.last.outcome \notin {"none", "duplicate", "existsFailed"} =>
             rq.last.issued \in EnrichmentOrders

\* C25: every event record references, by poolId, a pool record that exists
\* and carries the event's signature; storeEvent is awaited only after the
\* pool insert of the same transaction has succeeded; and no pool record has
\* more than one 'created' event.
C25_EventsReferenceTheirPool ==
    /\ \A e \in 1..Len(poolEvents) :
           \E i \in 1..Len(pools) :
               /\ pools[i].id = poolEvents[e].poolId
               /\ pools[i].signature = poolEvents[e].signature
    /\ \A i \in 1..Len(pools) :
           Cardinality({e \in 1..Len(poolEvents) :
                           /\ poolEvents[e].poolId = pools[i].id
                           /\ poolEvents[e].eventType = "created"}) <= 1
    /\ \A r \in Requests :
           /\ req[r].pc = "storeEvent" =>
                /\ req[r].insertedPool
                /\ \E i \in 1..Len(pools) :
                       /\ pools[i].id = req[r].newPoolId
                       /\ pools[i].signature = req[r].cand.signature
                       /\ pools[i].poolAddress = req[r].cand.poolAddress
           /\ req[r].insertedEvent => req[r].insertedPool

\* C25 witness: a transaction's pool and then its 'created' event were
\* stored, the event pointing at the pool.
C25_Witness ==
    /\ Len(pools) = 1
    /\ Len(poolEvents) = 1
    /\ poolEvents[1].poolId = pools[1].id
    /\ poolEvents[1].signature = pools[1].signature
    /\ poolEvents[1].eventType = "created"
    /\ \E r \in Requests : req[r].last.outcome = "saved" /\ req[r].last.signature = "sig1"

\* C26: the pool records only grow: no step deletes a record, and a record's
\* id, tokenA, tokenB, poolAddress, signature and source never change. A step
\* of the pipeline changes no existing record at all, and updatePoolApy
\* changes the apy and tvl of the records of one poolAddress only, every
\* other record staying as it was.
C26_PoolsOnlyGrow ==
    [][/\ Len(pools') >= Len(pools)
       /\ \A i \in 1..Len(pools) :
              pools'[i] = [pools[i] EXCEPT !.apy = pools'[i].apy, !.tvl = pools'[i].tvl]
       /\ \E target \in PoolAddresses \cup {"Missing"} :
              \A i \in 1..Len(pools) :
                  pools[i].poolAddress # target => pools'[i] = pools[i]
       /\ req' # req => \A i \in 1..Len(pools) : pools'[i] = pools[i]]_vars

\* C26 witness: the pipeline has added a record to a table of one, and
\* updatePoolApy has rewritten the apy and tvl of the first record only.
C26_Witness ==
    /\ Len(pools) = 2
    /\ pools[1].apy = 9 /\ pools[1].tvl = 900
    /\ pools[1].poolAddress = "Pool1" /\ pools[1].signature = "sig1"
    /\ pools[2].poolAddress = "PoolAcct"
    /\ pools[2].apy = 7 /\ pools[2].tvl = 300

C28_DisconnectBeforeExit ==
    [][/\ (server'.exitCode = 0 /\ server.exitCode # 0) =>
            /\ server.cleanup = "disconnecting"
            /\ server'.disconnected
            /\ server'.at = "exited"
       /\ (server.disconnected \/ server'.disconnected) =>
            /\ pools' = pools
            /\ poolEvents' = poolEvents
            /\ \A r \in Requests :
                   (req'[r].pc # req[r].pc \/ req'[r].idx # req[r].idx) =>
                       req'[r].pc \notin {"exists", "storePool", "storeEvent"}]_vars

\* C28 witness: after a pool and its event were stored a signal arrived, the
\* connection was closed and the process exited with code 0.
C28_Witness ==
    /\ server.at = "exited"
    /\ server.exitCode = 0
    /\ server.disconnected
    /\ Len(pools) = 1
    /\ Len(poolEvents) = 1

\* C29: the shared RateLimiter has one caller at a time: never are two wait()
\* calls in progress at once, and whatever deliveries are in flight, two
\* consecutive releases of wait() are at least delay apart.
C29_OneWaiterAtATime ==
    /\ Cardinality({r \in Requests : req[r].pc = "limiter"}) <= 1
    /\ ~hist.releaseTooClose

\* C30: two deliveries processed concurrently whose transactions parse to the
\* same poolAddress, the database answering every query: after both are
\* answered there is exactly one pool record and at most one event record for
\* that poolAddress, and both were answered with 200 (the insert turned away
\* by the unique constraint was caught).
C30_RaceLeavesOneRecord ==
    (/\ req[1].pc = "responded"
     /\ req[2].pc = "responded"
     /\ req[2].concurrent
     /\ req[1].body \in {ArrayBody(<<T1>>), ArrayBody(<<T1, T2>>)}
     /\ req[2].body = ArrayBody(<<T1>>)
     /\ \A r \in Requests :
            req[r].last.outcome \notin {"none", "existsFailed", "storeFailed", "eventFailed"}) =>
        /\ Cardinality(RowsOf("PoolAcct")) = 1
        /\ Cardinality({e \in 1..Len(poolEvents) :
                           \E i \in RowsOf("PoolAcct") : poolEvents[e].poolId = pools[i].id}) <= 1
        /\ req[1].status = 200
        /\ req[2].status = 200

\* C31: when the pool insert of a transaction has succeeded and its event
\* insert fails, the pool record stays as it is, without an event; the
\* failure is caught and the batch goes on to its next element (or to its
\* 200); and from then on no step gives that pool record an event: a later
\* delivery of the transaction finds the poolAddress stored and is skipped at
\* the existence check.
C31_OrphanPoolKeepsNoEvent ==
    [][/\ \A r \in Requests :
            (/\ req[r].pc = "storeEvent"
             /\ req'[r] # req[r]
             /\ Len(poolEvents') = Len(poolEvents)) =>
                /\ req'[r].last.outcome = "eventFailed"
                /\ pools' = pools
                /\ req'[r].idx > req[r].idx
                /\ req'[r].pc \in {"exists", "responded"}
                /\ req'[r].pc = "responded" =>
                     /\ req'[r].status = 200
                     /\ req'[r].idx = Len(req[r].body.items) + 1
       /\ \A i \in 1..Len(pools) :
            (/\ \A e \in 1..Len(poolEvents) : poolEvents[e].poolId # pools[i].id
             /\ \A r \in Requests :
                    ~(req[r].pc = "storeEvent" /\ req[r].newPoolId = pools[i].id)) =>
                /\ pools'[i] = pools[i]
                /\ \A e \in 1..Len(poolEvents') : poolEvents'[e].poolId # pools[i].id
                /\ \A r \in Requests :
                       (/\ req[r].pc = "exists"
                        /\ req'[r] # req[r]
                        /\ req[r].cand.poolAddress = pools[i].poolAddress) =>
                           /\ req'[r].last.outcome \in {"duplicate", "existsFailed"}
                           /\ req'[r].last.signature = req[r].cand.signature]_vars

\* C31 witness: a delivery's pool was stored and its event insert failed;
\* the same payload, delivered again, was skipped as a duplicate and answered,
\* and the pool record still has no event.
C31_Witness ==
    /\ req[1].pc = "responded"
    /\ req[1].status = 200
    /\ req[1].last.outcome = "eventFailed"
    /\ req[2].pc = "responded"
    /\ req[2].resub
    /\ req[2].last.outcome = "duplicate"
    /\ req[2].last.poolAddress = req[1].last.poolAddress
    /\ Len(pools) = 1
    /\ poolEvents = <<>>

\* C32: a yield lookup result with apy 0 or tvl 0 is stored as null for that
\* field: a stored pool's apy or tvl is never 0, its apy is non-null only when
\* the lookup returned an apy other than 0, and a pool whose matching
\* listings have no apy above 0 is never among the entries of GET
\* /api/pools/apy.
C32_ZeroIsStoredAsNull ==
    /\ \A i \in 1..Len(pools) : pools[i].apy # 0 /\ pools[i].tvl # 0
    /\ lookup.at = "stored" =>
         /\ Len(pools) = 1
         /\ pools[1].apy = IF lookup.result.nullish \/ lookup.result.apy = 0
                           THEN NullNum ELSE lookup.result.apy
         /\ pools[1].tvl = IF lookup.result.nullish \/ lookup.result.tvl = 0
                           THEN NullNum ELSE lookup.result.tvl
    /\ (api.route = "apy" /\ api.status = 200) =>
         /\ \A k \in 1..Len(api.pools) : api.pools[k].apy \notin {0, NullNum}
         /\ api.total > 0 =>
              LET matching == searchPools(lookup.listing, lookup.mint, "Solana") IN
              \E j \in 1..Len(matching) : matching[j].apy > 0

\* C32 witness: a lookup returned apy 7 with tvl 0; the pool was stored with
\* apy 7 and tvl null and is listed by GET /api/pools/apy.
C32_Witness ==
    /\ lookup.at = "stored"
    /\ ~lookup.result.nullish
    /\ lookup.result.apy = 7
    /\ lookup.result.tvl = 0
    /\ Len(pools) = 1
    /\ pools[1].apy = 7
    /\ pools[1].tvl = NullNum
    /\ api.route = "apy"
    /\ api.total = 1

\* The most fetch() invocations one transaction may cause: two yield lookups
\* and two token lookups of DefaultMaxRetries attempts each.
MaxAttempts == 4 * DefaultMaxRetries

\* C33: processing is bounded: each lookup makes at most 3 attempts and each
\* transaction at most 12 in all, and, every pending call settling and every
\* timer firing, a delivery that was received is answered.
C33_BoundedProcessing ==
    /\ [](\A r \in Requests :
            /\ req[r].attempts <= MaxAttempts
            /\ req[r].last.attempts <= MaxAttempts
            /\ req[r].pc \in ApiPcs => req[r].b.i < DefaultMaxRetries
            /\ req[r].attempts <= DefaultMaxRetries * Len(req[r].issued))
    /\ \A r \in Requests : (req[r].pc # "none") ~> (req[r].pc = "responded")

\* C33 witness: a transaction was saved after twelve fetch() invocations,
\* three for each of its four lookups.
C33_Witness ==
    /\ req[1].pc = "responded"
    /\ req[1].last.outcome = "saved"
    /\ req[1].last.attempts = 12
    /\ req[1].last.issued = <<"wait", "apyA", "apyB", "tokA", "tokB">>

====
